---- MODULE Spec2Model ----
(***************************************************************************)
(* DataForge: lifecycle orchestration of managed database instances on a   *)
(* cluster (createDatabase / deleteDatabase / listDatabases), manual       *)
(* backup triggering, and the dump / log stream relays.                    *)
(*                                                                         *)
(* Strings are modelled as sequences of tokens, so "my-app" is             *)
(* <<"my", "-", "app">> and `${name}-secret` is name \o <<"-", "secret">>. *)
(* The empty sequence stands for the empty string and for undefined.       *)
(***************************************************************************)
EXTENDS Integers, Sequences, FiniteSets, TLC

\* ---------------------------------------------------------------- bounds
MaxFaults == 1      \* injected failures of cluster calls in one behaviour
MaxClock == 1       \* largest value of the wall clock (Date.now())
MaxChunks == 2      \* chunks a remote dump / log producer emits
MaxObjects == 5     \* artifacts under one prefix of the bucket
MaxStamp == 2       \* largest lastModified of an artifact
MaxKeep == 3        \* largest number of artifacts a prune is asked to keep
MaxStepFaults == 2  \* injected failures of cluster calls of concurrent requests
MaxReplicas == 2    \* largest replica count of a workload
MaxNameLen == 3     \* longest name (in tokens) given to the name normalization

\* ---------------------------------------------------------------- inputs
Names == { <<"my", "-", "app">>, <<"shop">> }
Types == {"postgres", "redis"}
Unset == << >>
DbNameInputs == { Unset }
ScheduleInputs == { Unset }
VersionInputs == { <<"16">> }
RandomTokens == { "r1" }

Requests ==
  [name : Names, type : Types, version : VersionInputs,
   dbName : DbNameInputs, backupSchedule : ScheduleInputs]

\* a || b on strings: the first operand unless it is empty / undefined
OrElse(a, b) == IF a = Unset THEN b ELSE a

\* ---------------------------------------------------------------- errors
NoErr == [k8s |-> FALSE, code |-> 0, at |-> <<"none">>]
K8sErr(code, at) == [k8s |-> TRUE, code |-> code, at |-> at]
NetErr(at) == [k8s |-> FALSE, code |-> 1, at |-> at]
FaultKinds == {"http500"}
Fault(kind, at) == IF kind = "http500" THEN K8sErr(500, at) ELSE NetErr(at)

isK8sError(e) == e.k8s

\* ---------------------------------------------------------------- utils
generatePassword(tok) == <<"pw_", tok>>

\* ---------------------------------------------------------------- strategies
MapDash(s) == [i \in 1..Len(s) |-> IF s[i] = "-" THEN "_" ELSE s[i]]

getInternalDbName_prefixed(type, dbName) ==
  IF type = "postgres" THEN <<"db_">> \o MapDash(dbName) ELSE <<"0">>
getInternalDbName(type, dbName) ==
  IF type = "postgres" THEN MapDash(dbName) ELSE <<"0">>

getDbType_constant(type) == "postgres"
getDbType(type) == IF type = "postgres" THEN "postgres" ELSE "redis"

getVolumeName(type) ==
  IF type = "postgres" THEN <<"postgres", "-", "data">> ELSE <<"redis", "-", "data">>

getDefaultPort(type) == IF type = "postgres" THEN 5432 ELSE 6379

createUsername(type, tok) ==
  IF type = "postgres" THEN <<"user_">> \o generatePassword(tok) ELSE <<"default">>

createPassword(type, tok) == generatePassword(tok)

\* PostgresStrategy.getBackupConfig renders the upload target
\* s3://$S3_BUCKET/${name}/backup_...; RedisStrategy returns null.
NoBackup == [supported |-> FALSE, prefix |-> Unset, dbName |-> Unset]
getBackupConfig_always(type, name, dbName) ==
  [supported |-> TRUE, prefix |-> name, dbName |-> dbName]
getBackupConfig(type, name, dbName) ==
  IF type = "postgres"
  THEN [supported |-> TRUE, prefix |-> name, dbName |-> dbName]
  ELSE NoBackup

getStrategy(type) == [known |-> type \in Types, type |-> type]

\* ---------------------------------------------------------------- builders
SecretName(name) == name \o <<"-", "secret">>
ServiceName(name) == name \o <<"-", "service">>
StatefulSetName(name) == name \o <<"-", "statefulset">>
CronJobName(name) == name \o <<"-", "backup">>
S3SecretName == <<"dataforge", "-", "s3", "-", "credentials">>
DefaultSchedule == <<"0 3 * * *">>

createCredentialsSecretObject(secretName, cred) ==
  [name |-> secretName,
   stringData |-> [username |-> cred.username, password |-> cred.password,
                   db_name |-> cred.dbName, version |-> cred.version,
                   backup_schedule |-> cred.backupSchedule]]

createServiceObject(name, type) ==
  [name |-> ServiceName(name), app |-> name, port |-> getDefaultPort(type),
   ingress |-> << >>]

\* a replica count is << >> when the field is unset and <<k>> when it is k
FreshStatus == [replicas |-> <<0>>, readyReplicas |-> << >>]
ReadyStatus == [replicas |-> <<1>>, readyReplicas |-> <<1>>]

createStatefulSetObject(name, secretName, version, type) ==
  [name |-> StatefulSetName(name),
   labels |-> [app |-> name, managedBy |-> "dataforge", dbType |-> getDbType(type)],
   replicas |-> 1,
   volumeClaimTemplate |-> getVolumeName(type),
   status |-> FreshStatus]

createBackupCronJobObject(name, schedule, dbSecretName, dbName, version, type) ==
  LET backupConfig == getBackupConfig(type, name, dbName)
  IN  IF ~backupConfig.supported
      THEN [present |-> FALSE, name |-> Unset, schedule |-> Unset,
            prefix |-> Unset, hasTemplate |-> FALSE]
      ELSE [present |-> TRUE, name |-> CronJobName(name), schedule |-> schedule,
            prefix |-> backupConfig.prefix, hasTemplate |-> TRUE]

\* ---------------------------------------------------------------- state
VARIABLES
  cluster,    \* the namespace: secrets, services, statefulsets, cronjobs, pvcs, jobs
  now,        \* wall clock read by Date.now()
  faults,     \* number of injected call failures so far
  lastOp,     \* the last call (or platform event) and what it returned
  prevOp,     \* summary of the one before
  dump,       \* the relay of getDatabaseDumpStream: exec channel, PassThrough, web stream
  logs,       \* the relay of getDatabaseLogStream: log request, PassThrough, web stream
  store,      \* the bucket of the object store: the backup artifacts
  purges,     \* detached deleteBackupsFolder calls that have listed and not yet deleted
  restore,    \* the call of restoreDatabase in progress
  procs,      \* concurrent createDatabase / deleteDatabase calls, one per request slot
  unit        \* the last application of a pure function: its input and its result

vars == <<cluster, now, faults, lastOp, prevOp, dump, logs, store, purges, restore,
          procs, unit>>

\* ---------------------------------------------------------------- maps
Put(m, k, v) == [x \in (DOMAIN m) \cup {k} |-> IF x = k THEN v ELSE m[x]]
Drop(m, k) == [x \in (DOMAIN m) \ {k} |-> m[x]]
Has(m, k) == k \in DOMAIN m
EmptyMap == [x \in {} |-> 0]

\* the API server stores stringData base64-encoded under data
B64Enc(s) == [b64 |-> s]
B64Dec(d) == d.b64
EncodeAll(stringData) == [k \in DOMAIN stringData |-> B64Enc(stringData[k])]
\* Buffer.from(data.key || '', 'base64').toString()
DecodeKey(data, k) == IF k \in DOMAIN data THEN B64Dec(data[k]) ELSE Unset

\* ---------------------------------------------------------------- gateway
\* Every gateway call takes the running result r = [c, err, made, val] of the
\* calls before it, and the fault plan: the set F of calls that fail in
\* transport and the kind of failure.
Start(c) == [c |-> c, err |-> NoErr, made |-> {}, val |-> Unset]
Ok(r) == r.err = NoErr
Made(r, at) == r.made \cup {at}
Throw(r, at, e) == [r EXCEPT !.err = e, !.made = Made(r, at)]
Done(r, at, c, v) == [c |-> c, err |-> NoErr, made |-> Made(r, at), val |-> v]

k8s_createSecret_upsert(r, body, F, kind) ==
  LET at == <<"createSecret">> \o body.name
  IN  IF at \in F THEN Throw(r, at, Fault(kind, at))
      ELSE Done(r, at,
                [r.c EXCEPT !.secrets = Put(@, body.name, EncodeAll(body.stringData))],
                Unset)
k8s_createSecret(r, body, F, kind) ==
  LET at == <<"createSecret">> \o body.name
  IN  IF at \in F THEN Throw(r, at, Fault(kind, at))
      ELSE IF Has(r.c.secrets, body.name) THEN Throw(r, at, K8sErr(409, at))
      ELSE Done(r, at,
                [r.c EXCEPT !.secrets = Put(@, body.name, EncodeAll(body.stringData))],
                Unset)

k8s_getSecret(r, name, F, kind) ==
  LET at == <<"getSecret">> \o name
  IN  IF at \in F THEN Throw(r, at, Fault(kind, at))
      ELSE IF ~Has(r.c.secrets, name) THEN Throw(r, at, K8sErr(404, at))
      ELSE Done(r, at, r.c, r.c.secrets[name])

\* .catch(() => {}): every failure is swallowed
k8s_deleteSecret(r, name, F, kind) ==
  LET at == <<"deleteSecret">> \o name
  IN  IF at \in F THEN Done(r, at, r.c, Unset)
      ELSE Done(r, at, [r.c EXCEPT !.secrets = Drop(@, name)], Unset)

k8s_patchSecret_addOnly(r, name, data, F, kind) ==
  LET at == <<"patchSecret">> \o name
  IN  IF at \in F THEN Throw(r, at, Fault(kind, at))
      ELSE IF ~Has(r.c.secrets, name) THEN Throw(r, at, K8sErr(404, at))
      ELSE Done(r, at,
                [r.c EXCEPT !.secrets =
                   Put(@, name, [k \in (DOMAIN @[name]) \cup (DOMAIN data) |->
                                   IF k \in DOMAIN @[name] THEN @[name][k]
                                   ELSE B64Enc(data[k])])],
                Unset)
k8s_patchSecret(r, name, data, F, kind) ==
  LET at == <<"patchSecret">> \o name
  IN  IF at \in F THEN Throw(r, at, Fault(kind, at))
      ELSE IF ~Has(r.c.secrets, name) THEN Throw(r, at, K8sErr(404, at))
      ELSE Done(r, at,
                [r.c EXCEPT !.secrets =
                   Put(@, name, [k \in (DOMAIN @[name]) \cup (DOMAIN data) |->
                                   IF k \in DOMAIN data THEN B64Enc(data[k])
                                   ELSE @[name][k]])],
                Unset)

k8s_createService(r, body, F, kind) ==
  LET at == <<"createService">> \o body.name
  IN  IF at \in F THEN Throw(r, at, Fault(kind, at))
      ELSE IF Has(r.c.services, body.name) THEN Throw(r, at, K8sErr(409, at))
      ELSE Done(r, at, [r.c EXCEPT !.services = Put(@, body.name, body)], Unset)

\* .catch(() => null): a failed read yields null
NullService == [name |-> Unset, app |-> Unset, port |-> 0, ingress |-> << >>]
k8s_getService(r, name, F, kind) ==
  LET at == <<"getService">> \o name
  IN  IF at \in F \/ ~Has(r.c.services, name) THEN Done(r, at, r.c, NullService)
      ELSE Done(r, at, r.c, r.c.services[name])

k8s_deleteService_raising(r, name, F, kind) ==
  LET at == <<"deleteService">> \o name
  IN  IF at \in F THEN Throw(r, at, Fault(kind, at))
      ELSE Done(r, at, [r.c EXCEPT !.services = Drop(@, name)], Unset)
k8s_deleteService(r, name, F, kind) ==
  LET at == <<"deleteService">> \o name
  IN  IF at \in F THEN Done(r, at, r.c, Unset)
      ELSE Done(r, at, [r.c EXCEPT !.services = Drop(@, name)], Unset)

k8s_createStatefulSet(r, body, F, kind) ==
  LET at == <<"createStatefulSet">> \o body.name
  IN  IF at \in F THEN Throw(r, at, Fault(kind, at))
      ELSE IF Has(r.c.statefulsets, body.name) THEN Throw(r, at, K8sErr(409, at))
      ELSE Done(r, at, [r.c EXCEPT !.statefulsets = Put(@, body.name, body)], Unset)

k8s_getStatefulSet(r, name, F, kind) ==
  LET at == <<"getStatefulSet">> \o name
  IN  IF at \in F THEN Throw(r, at, Fault(kind, at))
      ELSE IF ~Has(r.c.statefulsets, name) THEN Throw(r, at, K8sErr(404, at))
      ELSE Done(r, at, r.c, r.c.statefulsets[name])

k8s_listStatefulSets(r, labelSelector, F, kind) ==
  LET at == <<"listStatefulSets">>
  IN  IF at \in F THEN Throw(r, at, Fault(kind, at))
      ELSE Done(r, at, r.c,
                {n \in DOMAIN r.c.statefulsets :
                   r.c.statefulsets[n].labels.managedBy = labelSelector})

\* propagationPolicy Foreground; .catch(() => {})
k8s_deleteStatefulSet(r, name, F, kind) ==
  LET at == <<"deleteStatefulSet">> \o name
  IN  IF at \in F THEN Done(r, at, r.c, Unset)
      ELSE Done(r, at, [r.c EXCEPT !.statefulsets = Drop(@, name)], Unset)

k8s_createCronJob(r, body, F, kind) ==
  LET at == <<"createCronJob">> \o body.name
  IN  IF at \in F THEN Throw(r, at, Fault(kind, at))
      ELSE IF Has(r.c.cronjobs, body.name) THEN Throw(r, at, K8sErr(409, at))
      ELSE Done(r, at, [r.c EXCEPT !.cronjobs = Put(@, body.name, body)], Unset)

k8s_getCronJob(r, name, F, kind) ==
  LET at == <<"getCronJob">> \o name
  IN  IF at \in F THEN Throw(r, at, Fault(kind, at))
      ELSE IF ~Has(r.c.cronjobs, name) THEN Throw(r, at, K8sErr(404, at))
      ELSE Done(r, at, r.c, r.c.cronjobs[name])

k8s_deleteCronJob(r, name, F, kind) ==
  LET at == <<"deleteCronJob">> \o name
  IN  IF at \in F THEN Done(r, at, r.c, Unset)
      ELSE Done(r, at, [r.c EXCEPT !.cronjobs = Drop(@, name)], Unset)

k8s_createJob(r, body, F, kind) ==
  LET at == <<"createJob">> \o body.name
  IN  IF at \in F THEN Throw(r, at, Fault(kind, at))
      ELSE IF body.name \in r.c.jobs THEN Throw(r, at, K8sErr(409, at))
      ELSE Done(r, at, [r.c EXCEPT !.jobs = @ \cup {body.name}], Unset)

\* no catch in the gateway: failures (absence included) are raised
k8s_deletePVC(r, name, F, kind) ==
  LET at == <<"deletePVC">> \o name
  IN  IF at \in F THEN Throw(r, at, Fault(kind, at))
      ELSE IF name \notin r.c.pvcs THEN Throw(r, at, K8sErr(404, at))
      ELSE Done(r, at, [r.c EXCEPT !.pvcs = @ \ {name}], Unset)

\* ---------------------------------------------------------------- config
S3Config ==
  [accessKey |-> <<"ak">>, secretKey |-> <<"sk">>, endpoint |-> <<"http://s3">>,
   bucket |-> <<"dataforge-backups">>, region |-> <<"us-east-1">>]

\* ---------------------------------------------------------------- storage
\* An artifact of the bucket: the key is `${prefix}/${file}`. The file part is
\* a one-digit number, so the key order of a listing is the order of file.
Key(o) == o.prefix \o <<"/", ToString(o.file)>>
\* Key.split('/').pop()
Filename(key) == <<key[Len(key)]>>

\* ListObjectsV2 with Prefix `${name}/`: the matching objects in key order
RECURSIVE InKeyOrder(_)
InKeyOrder(S) ==
  IF S = {} THEN << >>
  ELSE LET x == CHOOSE y \in S : \A z \in S : y.file <= z.file
       IN  <<x>> \o InKeyOrder(S \ {x})
ListObjectsV2(st, name) == InKeyOrder({o \in st : o.prefix = name})

\* DeleteObjects: removes the objects of the named keys
DeleteObjects(st, keys) == {o \in st : Key(o) \notin keys}

\* Array.prototype.sort with (a, b) => b.lastModified - a.lastModified: stable,
\* newest first
RECURSIVE InsertNewestFirst(_, _)
InsertNewestFirst(sorted, b) ==
  IF sorted = << >> THEN <<b>>
  ELSE IF Head(sorted).lastModified >= b.lastModified
  THEN <<Head(sorted)>> \o InsertNewestFirst(Tail(sorted), b)
  ELSE <<b>> \o sorted
RECURSIVE SortNewestFirst(_)
SortNewestFirst(items) ==
  IF items = << >> THEN << >>
  ELSE InsertNewestFirst(SortNewestFirst(SubSeq(items, 1, Len(items) - 1)),
                         items[Len(items)])

BackupFile(item) ==
  [key |-> Key(item), filename |-> Filename(Key(item)), lastModified |-> item.lastModified]

\* a failed listing is logged and answered with the empty list
listBackups(st, name, listFails) ==
  IF listFails THEN << >>
  ELSE LET contents == ListObjectsV2(st, name)
       IN  SortNewestFirst([i \in 1..Len(contents) |-> BackupFile(contents[i])])

\* backups.slice(keep)
Slice(items, from) == SubSeq(items, from + 1, Len(items))

pruneBackups_keepOldest(st, dbName, keep, listFails, deleteFails) ==
  LET backups == listBackups(st, dbName, listFails)
      toDelete == SubSeq(backups, 1, Len(backups) - keep)
  IN  IF Len(backups) <= keep
      THEN [store |-> st, outcome |-> "ok", value |-> 0, deleteSent |-> FALSE]
      ELSE IF deleteFails
      THEN [store |-> st, outcome |-> "Failed to prune backups", value |-> 0,
            deleteSent |-> TRUE]
      ELSE [store |-> DeleteObjects(st, {toDelete[i].key : i \in 1..Len(toDelete)}),
            outcome |-> "ok", value |-> Len(toDelete), deleteSent |-> TRUE]

pruneBackups(st, dbName, keep, listFails, deleteFails) ==
  LET backups == listBackups(st, dbName, listFails)
      toDelete == Slice(backups, keep)
  IN  IF Len(backups) <= keep
      THEN [store |-> st, outcome |-> "ok", value |-> 0, deleteSent |-> FALSE]
      ELSE IF deleteFails
      THEN [store |-> st, outcome |-> "Failed to prune backups", value |-> 0,
            deleteSent |-> TRUE]
      ELSE [store |-> DeleteObjects(st, {toDelete[i].key : i \in 1..Len(toDelete)}),
            outcome |-> "ok", value |-> Len(toDelete), deleteSent |-> TRUE]

\* deleteBackupsFolder up to its first await: the listing request is sent when
\* the function is called; an empty or failed listing ends the call
deleteBackupsFolder_list(st, name, listFails) ==
  IF listFails THEN {}
  ELSE LET contents == ListObjectsV2(st, name)
       IN  {Key(contents[i]) : i \in 1..Len(contents)}

\* the rest of deleteBackupsFolder: the batch delete of the listed keys, whose
\* failure is logged
deleteBackupsFolder_delete(st, keys, deleteFails) ==
  IF deleteFails THEN st ELSE DeleteObjects(st, keys)

\* GetObject: the body of the object of that key, if there is one
getBackupStream_unchecked(st, key, getFails) ==
  [ok |-> TRUE, body |-> key]
getBackupStream(st, key, getFails) ==
  IF getFails \/ ~\E o \in st : Key(o) = key
  THEN [ok |-> FALSE, body |-> Unset]
  ELSE [ok |-> TRUE, body |-> key]

\* ---------------------------------------------------------------- backup.ts
\* never raises: a failed create is logged, a conflict is answered by a patch
\* whose failure is logged as well
ensureGlobalS3Secret(r, F, kind) ==
  LET secretData == S3Config
      created == k8s_createSecret(r, [name |-> S3SecretName, stringData |-> secretData],
                                  F, kind)
  IN  IF Ok(created) THEN created
      ELSE IF isK8sError(created.err) /\ created.err.code = 409
      THEN LET patched == k8s_patchSecret([created EXCEPT !.err = NoErr],
                                          S3SecretName, secretData, F, kind)
           IN  [patched EXCEPT !.err = NoErr]
      ELSE [created EXCEPT !.err = NoErr]

ManualJobName(name, time) == name \o <<"-", "manual", "-", "backup", "-", ToString(time)>>

\* result of an orchestrator call: the cluster it leaves, what it returned or
\* raised, the calls it made, and whether it ran the rollback
Outcome(r, outcome, err, value, rollback) ==
  [c |-> r.c, made |-> r.made, outcome |-> outcome, err |-> err,
   value |-> value, rollback |-> rollback]

\* whether a caught error is answered with 'Backup configuration not found'
TriggerIsNotFound(e) == isK8sError(e) /\ e.code = 404

triggerBackup(c, name, time, F, kind) ==
  LET cronJobName == CronJobName(name)
      manualJobName == ManualJobName(name, time)
      r0 == ensureGlobalS3Secret(Start(c), F, kind)
      r1 == k8s_getCronJob(r0, cronJobName, F, kind)
      r2 == IF ~Ok(r1) THEN r1
            ELSE IF ~r1.val.hasTemplate
            THEN [r1 EXCEPT !.err = NetErr(<<"CronJob definition invalid">>)]
            ELSE k8s_createJob(r1, [name |-> manualJobName], F, kind)
  IN  IF Ok(r2) THEN Outcome(r2, "ok", NoErr, manualJobName, FALSE)
      ELSE IF TriggerIsNotFound(r2.err)
      THEN Outcome(r2, "Backup configuration not found", NoErr, Unset, FALSE)
      ELSE Outcome(r2, "Failed to trigger backup", NoErr, Unset, FALSE)

\* ---------------------------------------------------------------- database.ts
rollbackCreation_noService(r, name, secretName, F, kind) ==
  LET d1 == k8s_deleteSecret(r, secretName, F, kind)
      d3 == k8s_deleteStatefulSet(d1, StatefulSetName(name), F, kind)
  IN  k8s_deleteCronJob(d3, CronJobName(name), F, kind)

rollbackCreation(r, name, secretName, F, kind) ==
  LET d1 == k8s_deleteSecret(r, secretName, F, kind)
      d2 == k8s_deleteService(d1, ServiceName(name), F, kind)
      d3 == k8s_deleteStatefulSet(d2, StatefulSetName(name), F, kind)
  IN  k8s_deleteCronJob(d3, CronJobName(name), F, kind)

NoInstance ==
  [name |-> Unset, type |-> "", status |-> "", username |-> Unset,
   password |-> Unset, internalDbName |-> Unset, ip |-> Unset, port |-> 0,
   backupSchedule |-> Unset]

\* whether a caught error is answered with 'Database already exists'
IsConflict_never(e) == FALSE
IsConflict(e) == isK8sError(e) /\ e.code = 409

createDatabase(c, req, tok, F, kind) ==
  LET type == req.type
      password == createPassword(type, tok)
      username == createUsername(type, tok)
      internalDbName == getInternalDbName(type, OrElse(req.dbName, req.name))
      secretName == SecretName(req.name)
      schedule == OrElse(req.backupSchedule, DefaultSchedule)
      r0 == ensureGlobalS3Secret(Start(c), F, kind)
      secretObj == createCredentialsSecretObject(secretName,
                     [username |-> username, password |-> password,
                      dbName |-> internalDbName, version |-> req.version,
                      backupSchedule |-> schedule])
      r1 == k8s_createSecret(r0, secretObj, F, kind)
      r2 == IF Ok(r1) THEN k8s_createService(r1, createServiceObject(req.name, type), F, kind)
            ELSE r1
      r3 == IF Ok(r2)
            THEN k8s_createStatefulSet(r2,
                   createStatefulSetObject(req.name, secretName, req.version, type), F, kind)
            ELSE r2
      cronObj == createBackupCronJobObject(req.name, schedule, secretName,
                                           internalDbName, req.version, type)
      r4 == IF Ok(r3) /\ cronObj.present THEN k8s_createCronJob(r3, cronObj, F, kind)
            ELSE r3
  IN  IF Ok(r4)
      THEN Outcome(r4, "ok", NoErr,
                   [NoInstance EXCEPT !.name = req.name, !.type = type,
                      !.status = "Pending", !.username = username,
                      !.password = password, !.internalDbName = internalDbName,
                      !.backupSchedule = schedule],
                   FALSE)
      ELSE IF IsConflict(r4.err)
      THEN Outcome(r4, "Database already exists", NoErr, NoInstance, FALSE)
      ELSE Outcome(rollbackCreation([r4 EXCEPT !.err = NoErr], req.name, secretName, F, kind),
                   "raised", r4.err, NoInstance, TRUE)

PVCName(volumeName, name) ==
  volumeName \o <<"-">> \o name \o <<"-", "statefulset", "-", "0">>

\* whether a caught error is answered with 'Database not found'
DeleteIsNotFound_wrongCode(e) == isK8sError(e) /\ e.code = 409
DeleteIsNotFound(e) == isK8sError(e) /\ e.code = 404

deleteDatabase(c, name, F, kind) ==
  LET r0 == k8s_getStatefulSet(Start(c), StatefulSetName(name), F, kind)
      type == IF r0.val.labels.dbType = "" THEN "postgres" ELSE r0.val.labels.dbType
      strategy == getStrategy(type)
      pvcName == PVCName(getVolumeName(type), name)
      g == k8s_getSecret(r0, SecretName(name), F, kind)
      internalDbName == IF Ok(g) THEN DecodeKey(g.val, "db_name") ELSE Unset
      r1 == k8s_deleteStatefulSet([g EXCEPT !.err = NoErr], StatefulSetName(name), F, kind)
      r2 == k8s_deleteService(r1, ServiceName(name), F, kind)
      r3 == k8s_deleteSecret(r2, SecretName(name), F, kind)
      r4 == k8s_deleteCronJob(r3, CronJobName(name), F, kind)
      r5 == [k8s_deletePVC(r4, pvcName, F, kind) EXCEPT !.err = NoErr]
  IN  IF ~Ok(r0)
      THEN IF DeleteIsNotFound(r0.err)
           THEN Outcome(r0, "Database not found", NoErr, Unset, FALSE)
           ELSE Outcome(r0, "raised", r0.err, Unset, FALSE)
      ELSE IF ~strategy.known
      THEN Outcome(r0, "raised", NetErr(<<"Unknown database type strategy">>), Unset, FALSE)
      ELSE Outcome(r5, "ok", NoErr, internalDbName, FALSE)

\* (x || d) on a replica count
NumOr(x, d) == IF x = << >> \/ x[1] = 0 THEN d ELSE x[1]
isReady_zeroDefault(status) == NumOr(status.readyReplicas, 0) = NumOr(status.replicas, 0)
isReady(status) == NumOr(status.readyReplicas, 0) = NumOr(status.replicas, 1)

\* the items of a list response, in the order the API server returns them
RECURSIVE Items(_)
Items(S) ==
  IF S = {} THEN << >>
  ELSE LET x == CHOOSE y \in S : \A z \in S : Len(y) <= Len(z)
       IN  <<x>> \o Items(S \ {x})

\* one turn of the loop of listDatabases
listEntry(r, sts, F, kind) ==
  LET name == OrElse(sts.labels.app, <<"unknown">>)
      type == sts.labels.dbType
      g == k8s_getSecret(r, SecretName(name), F, kind)
      data == g.val
      s == IF Ok(g) THEN k8s_getService(g, ServiceName(name), F, kind) ELSE g
      svc == s.val
      hasIngress == Ok(g) /\ Len(svc.ingress) > 0
  IN  [r |-> [s EXCEPT !.err = NoErr],
       fetched |-> Ok(g),
       entry |->
         [name |-> name, type |-> type,
          status |-> IF isReady(sts.status) THEN "Running" ELSE "Pending",
          username |-> IF Ok(g) THEN DecodeKey(data, "username") ELSE Unset,
          password |-> IF Ok(g) THEN DecodeKey(data, "password") ELSE Unset,
          internalDbName |-> IF Ok(g) THEN DecodeKey(data, "db_name") ELSE Unset,
          ip |-> IF hasIngress THEN <<svc.ingress[1]>> ELSE Unset,
          port |-> IF hasIngress THEN svc.port ELSE 0,
          backupSchedule |-> IF Ok(g) THEN DecodeKey(data, "backup_schedule") ELSE Unset]]

RECURSIVE listLoop_skip(_, _, _, _, _)
listLoop_skip(r, items, databases, F, kind) ==
  IF items = << >> THEN [r |-> r, databases |-> databases]
  ELSE LET e == listEntry(r, r.c.statefulsets[Head(items)], F, kind)
       IN  listLoop_skip(e.r, Tail(items),
                         IF e.fetched THEN Append(databases, e.entry) ELSE databases,
                         F, kind)

RECURSIVE listLoop(_, _, _, _, _)
listLoop(r, items, databases, F, kind) ==
  IF items = << >> THEN [r |-> r, databases |-> databases]
  ELSE LET e == listEntry(r, r.c.statefulsets[Head(items)], F, kind)
       IN  listLoop(e.r, Tail(items), Append(databases, e.entry), F, kind)

listDatabases(c, F, kind) ==
  LET stsList == k8s_listStatefulSets(Start(c), "dataforge", F, kind)
  IN  IF ~Ok(stsList)
      THEN Outcome(stsList, "Failed to list databases", NoErr, << >>, FALSE)
      ELSE LET l == listLoop(stsList, Items(stsList.val), << >>, F, kind)
           IN  Outcome(l.r, "ok", NoErr, l.databases, FALSE)

\* ---------------------------------------------------------------- actions
Kinds == {"secret", "service", "statefulset", "cronjob", "pvc"}

\* which resources of an instance name exist in cluster c
Present(c, name) ==
  {k \in Kinds :
     \/ k = "secret" /\ Has(c.secrets, SecretName(name))
     \/ k = "service" /\ Has(c.services, ServiceName(name))
     \/ k = "statefulset" /\ Has(c.statefulsets, StatefulSetName(name))
     \/ k = "cronjob" /\ Has(c.cronjobs, CronJobName(name))
     \/ k = "pvc" /\ \E t \in Types : PVCName(getVolumeName(t), name) \in c.pvcs}

\* an instance as a successful create and the platform leave it
Provisioned(c, name) ==
  /\ Has(c.statefulsets, StatefulSetName(name))
  /\ LET type == c.statefulsets[StatefulSetName(name)].labels.dbType
     IN  /\ Present(c, name) =
              IF getBackupConfig(type, name, name).supported THEN Kinds
              ELSE Kinds \ {"cronjob"}
         /\ PVCName(getVolumeName(type), name) \in c.pvcs

NoOp ==
  [op |-> "init", name |-> Unset, type |-> "", outcome |-> "", err |-> NoErr,
   value |-> Unset, rollback |-> FALSE, failed |-> {}, full |-> FALSE]

\* the labels of the gateway's delete calls
IsDeleteCall(at) ==
  Head(at) \in {"deleteSecret", "deleteService", "deleteStatefulSet",
                "deleteCronJob", "deletePVC"}

\* what is remembered of the call before the last one; clean: none of its
\* delete calls failed
Summary(o) == [op |-> o.op, name |-> o.name, outcome |-> o.outcome,
               clean |-> \A at \in o.failed : ~IsDeleteCall(at), full |-> o.full]

Record(op, name, type, o, F) ==
  [op |-> op, name |-> name, type |-> type, outcome |-> o.outcome, err |-> o.err,
   value |-> o.value, rollback |-> o.rollback, failed |-> F,
   full |-> name # Unset /\ Provisioned(cluster, name)]

\* fault plans: at most MaxFaults failures are injected in a behaviour, and a
\* plan names only calls the operation goes on to make
Plans(labels) == {F \in SUBSET labels : Cardinality(F) <= MaxFaults - faults}
PlanKinds(F) == FaultKinds

S3Labels == { <<"createSecret">> \o S3SecretName, <<"patchSecret">> \o S3SecretName }
CreateLabels(name) ==
  S3Labels \cup
  { <<"createSecret">> \o SecretName(name), <<"createService">> \o ServiceName(name),
    <<"createStatefulSet">> \o StatefulSetName(name),
    <<"createCronJob">> \o CronJobName(name) }
RollbackLabels(name) ==
  { <<"deleteSecret">> \o SecretName(name), <<"deleteService">> \o ServiceName(name),
    <<"deleteStatefulSet">> \o StatefulSetName(name),
    <<"deleteCronJob">> \o CronJobName(name) }
DeleteLabels(name) ==
  RollbackLabels(name) \cup
  { <<"getStatefulSet">> \o StatefulSetName(name), <<"getSecret">> \o SecretName(name) } \cup
  { <<"deletePVC">> \o PVCName(getVolumeName(t), name) : t \in Types }
ListLabels ==
  { <<"listStatefulSets">> } \cup
  UNION { { <<"getSecret">> \o SecretName(n), <<"getService">> \o ServiceName(n) } : n \in Names }
TriggerLabels(name, time) ==
  S3Labels \cup
  { <<"getCronJob">> \o CronJobName(name), <<"createJob">> \o ManualJobName(name, time) }

Returned(op, name, type, o, F) ==
  /\ F \subseteq o.made
  /\ cluster' = o.c
  /\ faults' = faults + Cardinality(F)
  /\ lastOp' = Record(op, name, type, o, F)
  /\ prevOp' = Summary(lastOp)
  /\ UNCHANGED <<dump, logs, restore, procs, unit>>

Create(req, tok) ==
  \E F \in Plans(CreateLabels(req.name) \cup RollbackLabels(req.name)) :
    \E kind \in PlanKinds(F) :
      /\ Returned("create", req.name, req.type, createDatabase(cluster, req, tok, F, kind), F)
      /\ UNCHANGED <<now, store, purges>>

\* the detached storageService.deleteBackupsFolder(internalDbName) is started
\* for the recovered internal name when it is not empty; it has sent its
\* listing when deleteDatabase returns
StartPurge(o, listFails) ==
  IF o.outcome = "ok" /\ o.value # Unset
  THEN LET keys == deleteBackupsFolder_list(store, o.value, listFails)
       IN  IF keys = {} THEN purges ELSE purges \cup {keys}
  ELSE purges

Delete(name) ==
  \E F \in Plans(DeleteLabels(name)) :
    \E kind \in PlanKinds(F), listFails \in BOOLEAN :
      LET o == deleteDatabase(cluster, name, F, kind)
      IN  /\ Returned("delete", name, "", o, F)
          /\ purges' = StartPurge(o, listFails)
          /\ UNCHANGED <<now, store>>

List ==
  \E F \in Plans(ListLabels) :
    \E kind \in PlanKinds(F) :
      /\ Returned("list", Unset, "", listDatabases(cluster, F, kind), F)
      /\ UNCHANGED <<now, store, purges>>

TriggerBackup(name) ==
  \E F \in Plans(TriggerLabels(name, now)) :
    \E kind \in PlanKinds(F) :
      /\ Returned("trigger", name, "", triggerBackup(cluster, name, now, F, kind), F)
      /\ UNCHANGED <<now, store, purges>>

\* the platform: the workload controller creates the volume claim of pod 0
\* from the volume-claim template, the pod becomes ready, and the load
\* balancer assigns the service its address
Reconciled(c, name) ==
  LET sn == StatefulSetName(name)
      vn == ServiceName(name)
      c1 == IF Has(c.statefulsets, sn)
            THEN [c EXCEPT
                    !.statefulsets = Put(@, sn, [@[sn] EXCEPT !.status = ReadyStatus]),
                    !.pvcs = @ \cup {c.statefulsets[sn].volumeClaimTemplate
                                       \o <<"-">> \o sn \o <<"-", "0">>}]
            ELSE c
  IN  IF Has(c1.services, vn)
      THEN [c1 EXCEPT !.services = Put(@, vn, [@[vn] EXCEPT !.ingress = <<"10.0.0.1">>])]
      ELSE c1

Reconcile(name) ==
  /\ Reconciled(cluster, name) # cluster
  /\ cluster' = Reconciled(cluster, name)
  /\ lastOp' = [NoOp EXCEPT !.op = "platform", !.name = name]
  /\ prevOp' = Summary(lastOp)
  /\ UNCHANGED <<now, faults, dump, logs, store, purges, restore, procs, unit>>

Tick ==
  /\ now < MaxClock
  /\ now' = now + 1
  /\ UNCHANGED <<cluster, faults, lastOp, prevOp, dump, logs, store, purges, restore,
                 procs, unit>>

EmptyCluster ==
  [secrets |-> EmptyMap, services |-> EmptyMap, statefulsets |-> EmptyMap,
   cronjobs |-> EmptyMap, pvcs |-> {}, jobs |-> {}]

IdleDump ==
  [pc |-> "idle", exec |-> "none", status |-> "none", ended |-> FALSE,
   endEmitted |-> FALSE, web |-> "none", queue |-> 0, sent |-> 0, lost |-> 0]
IdleLogs ==
  [pc |-> "idle", req |-> "none", chanErrored |-> FALSE, web |-> "none",
   queue |-> 0, sent |-> 0, lost |-> 0]

Slots == 1..2
IdleRestore ==
  [pc |-> "idle", name |-> Unset, key |-> Unset, stream |-> "none", pre |-> "none",
   exec |-> "none", status |-> "none", settled |-> "pending", ran |-> {}]
NoRequest ==
  [name |-> Unset, type |-> "", version |-> Unset, dbName |-> Unset,
   backupSchedule |-> Unset]
IdleProc ==
  [op |-> "none", pc |-> "idle", req |-> NoRequest, tok |-> "", type |-> "",
   internalDbName |-> Unset, err |-> NoErr, outcome |-> "", value |-> NoInstance,
   calls |-> << >>, faulted |-> {}]
IdleProcs == [p \in Slots |-> IdleProc]
NoUnit == [fn |-> "none", type |-> "", input |-> Unset, output |-> Unset, times |-> 0]

Init ==
  /\ cluster = EmptyCluster
  /\ now = 0
  /\ faults = 0
  /\ lastOp = NoOp
  /\ prevOp = Summary(NoOp)
  /\ dump = IdleDump
  /\ logs = IdleLogs
  /\ store = {}
  /\ purges = {}
  /\ restore = IdleRestore
  /\ procs = IdleProcs
  /\ unit = NoUnit

\* the lifecycle of the instances
Next ==
  \/ \E req \in Requests, tok \in RandomTokens : Create(req, tok)
  \/ \E name \in Names : Delete(name)
  \/ List
  \/ \E name \in Names : Reconcile(name)

Spec == Init /\ [][Next]_vars

\* manual backups of one instance name
BackupNames == { <<"shop">> }
BackupNext ==
  \/ \E req \in Requests, tok \in RandomTokens : req.name \in BackupNames /\ Create(req, tok)
  \/ \E name \in BackupNames : Delete(name)
  \/ \E name \in BackupNames : TriggerBackup(name)
  \/ \E name \in BackupNames : Reconcile(name)
  \/ Tick

BackupSpec == Init /\ [][BackupNext]_vars

\* ---------------------------------------------------------------- streams
\* The web ReadableStream handed to the caller: controller.enqueue adds to its
\* queue while it is readable and raises otherwise; controller.close lets the
\* queue drain and then ends the stream; controller.error discards the queue.
Enqueue(st) ==
  IF st.web = "readable" THEN [st EXCEPT !.queue = @ + 1]
  ELSE [st EXCEPT !.lost = @ + 1]
Close(st) ==
  IF st.web = "readable"
  THEN [st EXCEPT !.web = IF st.queue = 0 THEN "closed" ELSE "closing"]
  ELSE st
Error(st) ==
  IF st.web \in {"readable", "closing"} THEN [st EXCEPT !.web = "errored", !.queue = 0]
  ELSE st
Read(st) ==
  [st EXCEPT !.queue = @ - 1,
             !.web = IF st.web = "closing" /\ st.queue = 1 THEN "closed" ELSE @]
Cancel(st) == [st EXCEPT !.web = "cancelled", !.queue = 0]

StreamNames == { <<"shop">> }
StreamEvent(c) ==
  /\ cluster' = c
  /\ UNCHANGED <<now, lastOp, prevOp, store, purges, restore, procs, unit>>

\* getDatabaseDumpStream up to its return: the workload is read, the strategy
\* resolved, the exec channel opened and the web stream built around the
\* PassThrough with its data / end / error handlers
DumpStart(name) ==
  /\ dump.pc = "idle"
  /\ \E F \in Plans({ <<"getStatefulSet">> \o StatefulSetName(name), <<"exec", "dump">> }) :
       LET sts == k8s_getStatefulSet(Start(cluster), StatefulSetName(name), F, "http500")
           failed == \/ ~Ok(sts)
                     \/ sts.val.labels.dbType = ""
                     \/ ~getStrategy(sts.val.labels.dbType).known
                     \/ <<"exec", "dump">> \in F
       IN  /\ (<<"exec", "dump">> \in F) => Ok(sts)
           /\ faults' = faults + Cardinality(F)
           /\ dump' = IF failed THEN [dump EXCEPT !.pc = "failed"]
                      ELSE [dump EXCEPT !.pc = "streaming", !.exec = "open",
                                        !.web = "readable"]
  /\ StreamEvent(cluster)
  /\ UNCHANGED logs

\* the dump process writes to stdout: the chunk passes the PassThrough, whose
\* data handler enqueues it
DumpData ==
  /\ dump.exec = "open"
  /\ dump.sent < MaxChunks
  /\ dump' = [Enqueue(dump) EXCEPT !.sent = @ + 1]
  /\ StreamEvent(cluster)
  /\ UNCHANGED <<faults, logs>>

\* the exec subsystem delivers the status of the command and closes the channel;
\* the status callback ends the PassThrough on 'Failure', the subsystem ends the
\* stdout stream on completion
DumpStatus(status) ==
  /\ dump.exec = "open"
  /\ dump' = [dump EXCEPT !.status = status, !.ended = TRUE, !.exec = "closed"]
  /\ StreamEvent(cluster)
  /\ UNCHANGED <<faults, logs>>

\* the PassThrough emits 'end': controller.close()
DumpEnd ==
  /\ dump.ended /\ ~dump.endEmitted
  /\ dump' = [Close(dump) EXCEPT !.endEmitted = TRUE]
  /\ StreamEvent(cluster)
  /\ UNCHANGED <<faults, logs>>

DumpRead ==
  /\ dump.web \in {"readable", "closing"}
  /\ dump.queue > 0
  /\ dump' = Read(dump)
  /\ StreamEvent(cluster)
  /\ UNCHANGED <<faults, logs>>

\* the caller cancels or disconnects: the web stream was built without a
\* cancel callback
DumpCancel ==
  /\ dump.web \in {"readable", "closing"}
  /\ dump' = Cancel(dump)
  /\ StreamEvent(cluster)
  /\ UNCHANGED <<faults, logs>>

\* getDatabaseLogStream up to its return
LogStart(name) ==
  /\ logs.pc = "idle"
  /\ \E F \in Plans({ <<"log">> }) :
       /\ faults' = faults + Cardinality(F)
       /\ logs' = IF F # {} THEN [logs EXCEPT !.pc = "failed"]
                  ELSE [logs EXCEPT !.pc = "streaming", !.req = "open", !.web = "readable"]
  /\ StreamEvent(cluster)
  /\ UNCHANGED dump

LogData ==
  /\ logs.req = "open"
  /\ logs.sent < MaxChunks
  /\ logs' = [Enqueue(logs) EXCEPT !.sent = @ + 1]
  /\ StreamEvent(cluster)
  /\ UNCHANGED <<faults, dump>>

\* the log response ends: 'end' closes the web stream, 'close' aborts the request
LogEnd ==
  /\ logs.req = "open"
  /\ logs' = [Close(logs) EXCEPT !.req = "aborted"]
  /\ StreamEvent(cluster)
  /\ UNCHANGED <<faults, dump>>

\* the log channel errors: the PassThrough emits 'error', on which one handler
\* aborts the request and the other errors the web stream
LogChannelError ==
  /\ logs.req = "open"
  /\ logs' = [Error(logs) EXCEPT !.req = "aborted", !.chanErrored = TRUE]
  /\ StreamEvent(cluster)
  /\ UNCHANGED <<faults, dump>>

LogRead ==
  /\ logs.web \in {"readable", "closing"}
  /\ logs.queue > 0
  /\ logs' = Read(logs)
  /\ StreamEvent(cluster)
  /\ UNCHANGED <<faults, dump>>

LogCancel_noAbort ==
  /\ logs.web \in {"readable", "closing"}
  /\ logs' = Cancel(logs)
  /\ StreamEvent(cluster)
  /\ UNCHANGED <<faults, dump>>

\* the caller cancels: the cancel callback aborts the log request
LogCancel ==
  /\ logs.web \in {"readable", "closing"}
  /\ logs' = [Cancel(logs) EXCEPT !.req = "aborted"]
  /\ StreamEvent(cluster)
  /\ UNCHANGED <<faults, dump>>

\* the relays run against an instance that was created and has started
StreamInit ==
  /\ \E req \in Requests, tok \in RandomTokens :
       /\ req.name \in StreamNames
       /\ cluster = Reconciled(createDatabase(EmptyCluster, req, tok, {}, "http500").c,
                               req.name)
  /\ now = 0
  /\ faults = 0
  /\ lastOp = NoOp
  /\ prevOp = Summary(NoOp)
  /\ dump = IdleDump
  /\ logs = IdleLogs
  /\ store = {}
  /\ purges = {}
  /\ restore = IdleRestore
  /\ procs = IdleProcs
  /\ unit = NoUnit

StreamNext ==
  \/ \E name \in StreamNames : DumpStart(name)
  \/ DumpData
  \/ \E status \in {"Success", "Failure"} : DumpStatus(status)
  \/ DumpEnd
  \/ DumpRead
  \/ DumpCancel
  \/ \E name \in StreamNames : LogStart(name)
  \/ LogData
  \/ LogEnd
  \/ LogChannelError
  \/ LogRead
  \/ LogCancel

StreamSpec == StreamInit /\ [][StreamNext]_vars

\* the event loop runs every handler that is due; the remote dump process
\* keeps writing while it has output, but nothing makes it finish
LiveStreamSpec ==
  StreamSpec /\ WF_vars(DumpEnd) /\ WF_vars(DumpData) /\ WF_vars(LogData)

\* ---------------------------------------------------------------- restore
\* what the restore endpoint can pass as backupKey: the key of an artifact, or
\* the bare file name taken from the URL
RestoreKeys == {Key(o) : o \in store} \cup {Filename(Key(o)) : o \in store}

RestoreEvent ==
  UNCHANGED <<cluster, now, lastOp, prevOp, dump, logs, store, purges, procs, unit>>

\* restoreDatabase up to the pre-restore step: the workload is read, the
\* strategy resolved and the artifact opened; a failure of any of them is
\* raised to the caller
RestoreStart(name, backupKey) ==
  /\ restore.pc \in {"idle", "done"}
  /\ \E F \in Plans({ <<"getStatefulSet">> \o StatefulSetName(name), <<"getObject">> }) :
       LET sts == k8s_getStatefulSet(Start(cluster), StatefulSetName(name), F, "http500")
           type == IF Ok(sts)
                   THEN (IF sts.val.labels.dbType = "" THEN "postgres"
                         ELSE sts.val.labels.dbType)
                   ELSE ""
           backupStream == getBackupStream(store, backupKey, <<"getObject">> \in F)
           failed == ~Ok(sts) \/ ~getStrategy(type).known \/ ~backupStream.ok
       IN  /\ (<<"getObject">> \in F) => (Ok(sts) /\ getStrategy(type).known)
           /\ faults' = faults + Cardinality(F)
           /\ restore' =
                IF failed
                THEN [IdleRestore EXCEPT !.pc = "done", !.name = name, !.key = backupKey,
                                         !.settled = "rejected"]
                ELSE [IdleRestore EXCEPT !.pc = "pre", !.name = name, !.key = backupKey,
                                         !.stream = "open"]
  /\ RestoreEvent

\* the pre-restore exec: its failure is caught and logged
preRestore_raising(opened) ==
  [pre |-> IF opened THEN "opened" ELSE "failed", raised |-> ~opened]
preRestore(opened) ==
  [pre |-> IF opened THEN "opened" ELSE "failed", raised |-> FALSE]

RestorePre ==
  /\ restore.pc = "pre"
  /\ \E opened \in BOOLEAN :
       LET p == preRestore(opened)
       IN  /\ opened \/ faults < MaxFaults
           /\ faults' = IF opened THEN faults ELSE faults + 1
           /\ restore' =
                IF p.raised
                THEN [restore EXCEPT !.pc = "done", !.pre = p.pre, !.settled = "rejected"]
                ELSE [restore EXCEPT !.pc = "exec", !.pre = p.pre,
                                     !.ran = IF opened THEN @ \cup {"pre"} ELSE @]
  /\ RestoreEvent

\* the restore exec is opened with the artifact stream as its stdin; a failure
\* to open it rejects the promise
RestoreExec ==
  /\ restore.pc = "exec"
  /\ \E opened \in BOOLEAN :
       /\ opened \/ faults < MaxFaults
       /\ faults' = IF opened THEN faults ELSE faults + 1
       /\ restore' =
            IF opened
            THEN [restore EXCEPT !.pc = "running", !.exec = "open",
                                 !.ran = @ \cup {"restore"}]
            ELSE [restore EXCEPT !.pc = "done", !.exec = "failed", !.settled = "rejected"]
  /\ RestoreEvent

\* the status callback of the restore exec
RestoreStatus(status) ==
  /\ restore.pc = "running"
  /\ restore' = [restore EXCEPT !.pc = "done", !.exec = "closed", !.status = status,
                                !.settled = IF status = "Failure" THEN "rejected"
                                            ELSE "resolved"]
  /\ UNCHANGED faults
  /\ RestoreEvent

\* the scheduled backup job of an instance runs: its command uploads the dump
\* to s3://$S3_BUCKET/${prefix}/backup_$(date), one key per clock value
ScheduledBackup(name) ==
  /\ Has(cluster.cronjobs, CronJobName(name))
  /\ LET prefix == cluster.cronjobs[CronJobName(name)].prefix
     IN  store' = {o \in store : ~(o.prefix = prefix /\ o.file = now)}
                    \cup {[prefix |-> prefix, file |-> now, lastModified |-> now]}
  /\ UNCHANGED <<cluster, now, faults, lastOp, prevOp, dump, logs, purges, restore,
                 procs, unit>>

\* restores run against instances that were created and have started
RestoreInit ==
  /\ \E req \in Requests, tok \in RandomTokens :
       cluster = Reconciled(createDatabase(EmptyCluster, req, tok, {}, "http500").c,
                            req.name)
  /\ now = 0
  /\ faults = 0
  /\ lastOp = NoOp
  /\ prevOp = Summary(NoOp)
  /\ dump = IdleDump
  /\ logs = IdleLogs
  /\ store = {}
  /\ purges = {}
  /\ restore = IdleRestore
  /\ procs = IdleProcs
  /\ unit = NoUnit

RestoreNext ==
  \/ \E name \in Names : ScheduledBackup(name)
  \/ Tick
  \/ \E name \in Names, backupKey \in RestoreKeys : RestoreStart(name, backupKey)
  \/ RestorePre
  \/ RestoreExec
  \/ \E status \in {"Success", "Failure"} : RestoreStatus(status)

RestoreSpec == RestoreInit /\ [][RestoreNext]_vars

\* ---------------------------------------------------------------- concurrent requests
\* createDatabase and deleteDatabase one cluster call at a time: a request runs
\* up to its next await, the call takes effect on the cluster, and other
\* requests may run before the request continues. pc names the call a request
\* is about to make.
ConcNames == { <<"shop">> }
SlotToken(s) == IF s = 1 THEN "r1" ELSE "r2"
ConcFault(fails, name) ==
  IF fails THEN CreateLabels(name) \cup DeleteLabels(name) ELSE {}

\* the call made is logged by its method name
Logged(p, r, F) ==
  [p EXCEPT !.calls = @ \o [i \in 1..1 |-> Head(CHOOSE at \in r.made : TRUE)],
            !.faulted = @ \cup (F \cap r.made)]

\* the catch block of createDatabase
createCatch(p, e) ==
  IF IsConflict(e)
  THEN [p EXCEPT !.pc = "done", !.outcome = "Database already exists"]
  ELSE [p EXCEPT !.pc = "rb_secret", !.err = e]

createReturn(p) ==
  LET req == p.req
  IN  [p EXCEPT !.pc = "done", !.outcome = "ok",
                !.value = [NoInstance EXCEPT
                             !.name = req.name, !.type = req.type, !.status = "Pending",
                             !.username = createUsername(req.type, p.tok),
                             !.password = createPassword(req.type, p.tok),
                             !.internalDbName =
                                getInternalDbName(req.type, OrElse(req.dbName, req.name)),
                             !.backupSchedule =
                                OrElse(req.backupSchedule, DefaultSchedule)]]

\* a compensating delete that raised would leave rollbackCreation and replace
\* the error createDatabase raises
rollbackNext(p, r, next) ==
  IF Ok(r) THEN [p EXCEPT !.pc = next, !.outcome = IF next = "done" THEN "raised" ELSE @]
  ELSE [p EXCEPT !.pc = "done", !.outcome = "raised", !.err = r.err]

createStep(c, p, F, kind) ==
  LET req == p.req
      type == req.type
      internalDbName == getInternalDbName(type, OrElse(req.dbName, req.name))
      secretName == SecretName(req.name)
      schedule == OrElse(req.backupSchedule, DefaultSchedule)
      secretObj == createCredentialsSecretObject(secretName,
                     [username |-> createUsername(type, p.tok),
                      password |-> createPassword(type, p.tok),
                      dbName |-> internalDbName, version |-> req.version,
                      backupSchedule |-> schedule])
      cronObj == createBackupCronJobObject(req.name, schedule, secretName,
                                           internalDbName, req.version, type)
      r == CASE p.pc = "s3" ->
                  k8s_createSecret(Start(c), [name |-> S3SecretName, stringData |-> S3Config],
                                   F, kind)
             [] p.pc = "s3patch" -> k8s_patchSecret(Start(c), S3SecretName, S3Config, F, kind)
             [] p.pc = "secret" -> k8s_createSecret(Start(c), secretObj, F, kind)
             [] p.pc = "service" ->
                  k8s_createService(Start(c), createServiceObject(req.name, type), F, kind)
             [] p.pc = "statefulset" ->
                  k8s_createStatefulSet(Start(c),
                    createStatefulSetObject(req.name, secretName, req.version, type), F, kind)
             [] p.pc = "cronjob" -> k8s_createCronJob(Start(c), cronObj, F, kind)
             [] p.pc = "rb_secret" -> k8s_deleteSecret(Start(c), secretName, F, kind)
             [] p.pc = "rb_service" -> k8s_deleteService(Start(c), ServiceName(req.name), F, kind)
             [] p.pc = "rb_statefulset" ->
                  k8s_deleteStatefulSet(Start(c), StatefulSetName(req.name), F, kind)
             [] p.pc = "rb_cronjob" -> k8s_deleteCronJob(Start(c), CronJobName(req.name), F, kind)
      q == Logged(p, r, F)
  IN  [c |-> r.c,
       p |-> CASE p.pc = "s3" ->
                    [q EXCEPT !.pc = IF ~Ok(r) /\ isK8sError(r.err) /\ r.err.code = 409
                                     THEN "s3patch" ELSE "secret"]
               [] p.pc = "s3patch" -> [q EXCEPT !.pc = "secret"]
               [] p.pc = "secret" ->
                    IF Ok(r) THEN [q EXCEPT !.pc = "service"] ELSE createCatch(q, r.err)
               [] p.pc = "service" ->
                    IF Ok(r) THEN [q EXCEPT !.pc = "statefulset"] ELSE createCatch(q, r.err)
               [] p.pc = "statefulset" ->
                    IF ~Ok(r) THEN createCatch(q, r.err)
                    ELSE IF cronObj.present THEN [q EXCEPT !.pc = "cronjob"]
                    ELSE createReturn(q)
               [] p.pc = "cronjob" ->
                    IF Ok(r) THEN createReturn(q) ELSE createCatch(q, r.err)
               [] p.pc = "rb_secret" -> rollbackNext(q, r, "rb_service")
               [] p.pc = "rb_service" -> rollbackNext(q, r, "rb_statefulset")
               [] p.pc = "rb_statefulset" -> rollbackNext(q, r, "rb_cronjob")
               [] p.pc = "rb_cronjob" -> rollbackNext(q, r, "done")]

\* the catch block of deleteDatabase
deleteCatch(p, e) ==
  IF DeleteIsNotFound(e)
  THEN [p EXCEPT !.pc = "done", !.outcome = "Database not found"]
  ELSE [p EXCEPT !.pc = "done", !.outcome = "raised", !.err = e]

\* the order of the awaited calls of deleteDatabase
deleteNext_volumeFirst(pc) ==
  CASE pc = "getStatefulSet" -> "getSecret"
    [] pc = "getSecret" -> "deletePVC"
    [] pc = "deletePVC" -> "deleteStatefulSet"
    [] pc = "deleteStatefulSet" -> "deleteService"
    [] pc = "deleteService" -> "deleteSecret"
    [] pc = "deleteSecret" -> "deleteCronJob"
    [] pc = "deleteCronJob" -> "deleteBackupsFolder"
deleteNext(pc) ==
  CASE pc = "getStatefulSet" -> "getSecret"
    [] pc = "getSecret" -> "deleteStatefulSet"
    [] pc = "deleteStatefulSet" -> "deleteService"
    [] pc = "deleteService" -> "deleteSecret"
    [] pc = "deleteSecret" -> "deleteCronJob"
    [] pc = "deleteCronJob" -> "deletePVC"
    [] pc = "deletePVC" -> "deleteBackupsFolder"

deleteStep(c, p, F, kind) ==
  LET name == p.req.name
      r == CASE p.pc = "getStatefulSet" ->
                  k8s_getStatefulSet(Start(c), StatefulSetName(name), F, kind)
             [] p.pc = "getSecret" -> k8s_getSecret(Start(c), SecretName(name), F, kind)
             [] p.pc = "deleteStatefulSet" ->
                  k8s_deleteStatefulSet(Start(c), StatefulSetName(name), F, kind)
             [] p.pc = "deleteService" -> k8s_deleteService(Start(c), ServiceName(name), F, kind)
             [] p.pc = "deleteSecret" -> k8s_deleteSecret(Start(c), SecretName(name), F, kind)
             [] p.pc = "deleteCronJob" -> k8s_deleteCronJob(Start(c), CronJobName(name), F, kind)
             [] p.pc = "deletePVC" ->
                  k8s_deletePVC(Start(c), PVCName(getVolumeName(p.type), name), F, kind)
      q == [Logged(p, r, F) EXCEPT !.pc = deleteNext(p.pc)]
  IN  [c |-> r.c,
       p |-> CASE p.pc = "getStatefulSet" ->
                    IF ~Ok(r) THEN deleteCatch(Logged(p, r, F), r.err)
                    ELSE LET type == IF r.val.labels.dbType = "" THEN "postgres"
                                     ELSE r.val.labels.dbType
                         IN  IF ~getStrategy(type).known
                             THEN deleteCatch(Logged(p, r, F),
                                              NetErr(<<"Unknown database type strategy">>))
                             ELSE [q EXCEPT !.type = type]
               [] p.pc = "getSecret" ->
                    [q EXCEPT !.internalDbName =
                                IF Ok(r) THEN DecodeKey(r.val, "db_name") ELSE Unset]
               [] p.pc = "deletePVC" -> q
               [] OTHER -> IF Ok(r) THEN q ELSE deleteCatch(Logged(p, r, F), r.err)]

ConcEvent ==
  UNCHANGED <<now, lastOp, prevOp, dump, logs, restore, unit>>

StartCreate(s, req) ==
  /\ procs[s].pc = "idle"
  /\ procs' = [procs EXCEPT ![s] = [IdleProc EXCEPT !.op = "create", !.pc = "s3",
                                                     !.req = req, !.tok = SlotToken(s)]]
  /\ UNCHANGED <<cluster, faults, store, purges>>
  /\ ConcEvent

StartDelete(s, name) ==
  /\ procs[s].pc = "idle"
  /\ procs' = [procs EXCEPT ![s] = [IdleProc EXCEPT !.op = "delete", !.pc = "getStatefulSet",
                                                     !.req = [NoRequest EXCEPT !.name = name]]]
  /\ UNCHANGED <<cluster, faults, store, purges>>
  /\ ConcEvent

CreateStep(s) ==
  /\ procs[s].op = "create" /\ procs[s].pc \notin {"idle", "done"}
  /\ \E fails \in BOOLEAN, kind \in FaultKinds :
       LET F == ConcFault(fails, procs[s].req.name)
           o == createStep(cluster, procs[s], F, kind)
       IN  /\ fails => faults < MaxStepFaults
           /\ faults' = IF fails THEN faults + 1 ELSE faults
           /\ cluster' = o.c
           /\ procs' = [procs EXCEPT ![s] = o.p]
  /\ UNCHANGED <<store, purges>>
  /\ ConcEvent

DeleteStep(s) ==
  /\ procs[s].op = "delete" /\ procs[s].pc \notin {"idle", "done", "deleteBackupsFolder"}
  /\ \E fails \in BOOLEAN, kind \in FaultKinds :
       LET F == ConcFault(fails, procs[s].req.name)
           o == deleteStep(cluster, procs[s], F, kind)
       IN  /\ fails => faults < MaxStepFaults
           /\ faults' = IF fails THEN faults + 1 ELSE faults
           /\ cluster' = o.c
           /\ procs' = [procs EXCEPT ![s] = o.p]
  /\ UNCHANGED <<store, purges>>
  /\ ConcEvent

\* after the volume claim delete: the detached deleteBackupsFolder is started
\* when an internal name was recovered, and deleteDatabase returns
DeleteReturn(s) ==
  /\ procs[s].op = "delete" /\ procs[s].pc = "deleteBackupsFolder"
  /\ \E listFails \in BOOLEAN :
       LET p == procs[s]
           started == p.internalDbName # Unset
           keys == IF started
                   THEN deleteBackupsFolder_list(store, p.internalDbName, listFails)
                   ELSE {}
       IN  /\ procs' = [procs EXCEPT ![s] =
                          [p EXCEPT !.pc = "done", !.outcome = "ok",
                                    !.calls = IF started
                                              THEN Append(@, "deleteBackupsFolder") ELSE @]]
           /\ purges' = IF keys = {} THEN purges ELSE purges \cup {keys}
  /\ UNCHANGED <<cluster, faults, store>>
  /\ ConcEvent

\* a detached deleteBackupsFolder gets its listing and sends the batch delete
PurgeDelete(keys) ==
  /\ keys \in purges
  /\ \E deleteFails \in BOOLEAN :
       /\ store' = deleteBackupsFolder_delete(store, keys, deleteFails)
       /\ lastOp' = [NoOp EXCEPT !.op = "purge",
                                 !.outcome = IF deleteFails THEN "logged" ELSE "ok"]
  /\ purges' = purges \ {keys}
  /\ prevOp' = Summary(lastOp)
  /\ UNCHANGED <<cluster, now, faults, dump, logs, restore, procs, unit>>

ConcNext ==
  \/ \E s \in Slots, req \in Requests : req.name \in ConcNames /\ StartCreate(s, req)
  \/ \E s \in Slots, name \in ConcNames : StartDelete(s, name)
  \/ \E s \in Slots : CreateStep(s)
  \/ \E s \in Slots : DeleteStep(s)
  \/ \E s \in Slots : DeleteReturn(s)
  \/ \E name \in ConcNames : Reconcile(name)
  \/ \E name \in ConcNames : ScheduledBackup(name)
  \/ \E keys \in purges : PurgeDelete(keys)

ConcSpec == Init /\ [][ConcNext]_vars

\* ---------------------------------------------------------------- S3 secret
\* The secret dataforge-s3-credentials as a deployment finds it: absent, written
\* by ensureGlobalS3Secret under the configuration in force, or written by it
\* under an earlier configuration (other credentials and endpoint).
EarlierS3Config ==
  [accessKey |-> <<"ak0">>, secretKey |-> <<"sk0">>, endpoint |-> <<"http://old">>,
   bucket |-> <<"dataforge-backups">>, region |-> <<"us-east-1">>]
PriorS3 == {"absent", "current", "earlier"}
WithS3Secret(c, prior) ==
  CASE prior = "absent" -> c
    [] prior = "current" ->
         [c EXCEPT !.secrets = Put(@, S3SecretName, EncodeAll(S3Config))]
    [] prior = "earlier" ->
         [c EXCEPT !.secrets = Put(@, S3SecretName, EncodeAll(EarlierS3Config))]

EnsureInit ==
  /\ \E prior \in PriorS3 :
       /\ cluster = WithS3Secret(EmptyCluster, prior)
       /\ lastOp = [NoOp EXCEPT !.op = "deployed", !.outcome = prior]
  /\ now = 0
  /\ faults = 0
  /\ prevOp = Summary(NoOp)
  /\ dump = IdleDump
  /\ logs = IdleLogs
  /\ store = {}
  /\ purges = {}
  /\ restore = IdleRestore
  /\ procs = IdleProcs
  /\ unit = NoUnit

\* two concurrent createDatabase calls of one deployment
EnsureNext ==
  \/ \E s \in Slots, req \in Requests : req.name \in ConcNames /\ StartCreate(s, req)
  \/ \E s \in Slots : CreateStep(s)

EnsureSpec == EnsureInit /\ [][EnsureNext]_vars

\* ---------------------------------------------------------------- gateway deletes
\* The delete operations of the gateway called on their own, on the resources
\* of one instance name, present or not.
GatewayNames == { <<"shop">> }
DeleteMethods ==
  {"deleteSecret", "deleteService", "deleteStatefulSet", "deleteCronJob", "deletePVC"}
DeleteTargets(method) ==
  CASE method = "deleteSecret" -> { SecretName(n) : n \in GatewayNames }
    [] method = "deleteService" -> { ServiceName(n) : n \in GatewayNames }
    [] method = "deleteStatefulSet" -> { StatefulSetName(n) : n \in GatewayNames }
    [] method = "deleteCronJob" -> { CronJobName(n) : n \in GatewayNames }
    [] method = "deletePVC" ->
         { PVCName(getVolumeName(t), n) : t \in Types, n \in GatewayNames }

\* whether the target of a delete operation exists in cluster c
TargetExists(c, method, target) ==
  CASE method = "deleteSecret" -> Has(c.secrets, target)
    [] method = "deleteService" -> Has(c.services, target)
    [] method = "deleteStatefulSet" -> Has(c.statefulsets, target)
    [] method = "deleteCronJob" -> Has(c.cronjobs, target)
    [] method = "deletePVC" -> target \in c.pvcs

k8s_delete(method, r, target, F, kind) ==
  CASE method = "deleteSecret" -> k8s_deleteSecret(r, target, F, kind)
    [] method = "deleteService" -> k8s_deleteService(r, target, F, kind)
    [] method = "deleteStatefulSet" -> k8s_deleteStatefulSet(r, target, F, kind)
    [] method = "deleteCronJob" -> k8s_deleteCronJob(r, target, F, kind)
    [] method = "deletePVC" -> k8s_deletePVC(r, target, F, kind)

GatewayDelete(method, target) ==
  \E fails \in BOOLEAN, kind \in FaultKinds :
    LET F == IF fails THEN { <<method>> \o target } ELSE {}
        r == k8s_delete(method, Start(cluster), target, F, kind)
    IN  /\ fails => faults < MaxFaults
        /\ faults' = IF fails THEN faults + 1 ELSE faults
        /\ cluster' = r.c
        /\ lastOp' = [NoOp EXCEPT !.op = "gatewayDelete", !.name = target,
                                  !.type = method, !.failed = F, !.err = r.err,
                                  !.outcome = IF Ok(r) THEN "ok" ELSE "raised"]
        /\ prevOp' = Summary(lastOp)
        /\ UNCHANGED <<now, dump, logs, store, purges, restore, procs, unit>>

GatewayNext ==
  \/ \E req \in Requests, tok \in RandomTokens : req.name \in GatewayNames /\ Create(req, tok)
  \/ \E name \in GatewayNames : Reconcile(name)
  \/ \E method \in DeleteMethods : \E target \in DeleteTargets(method) :
       GatewayDelete(method, target)

GatewaySpec == Init /\ [][GatewayNext]_vars

\* ---------------------------------------------------------------- workload status
\* a replica count of the workload status: unset, or a number
ReplicaInputs == { << >> } \cup { <<k>> : k \in 0..MaxReplicas }
Count(x) == IF x = << >> THEN 0 ELSE x[1]

PlatformEvent(name) ==
  /\ lastOp' = [NoOp EXCEPT !.op = "platform", !.name = name]
  /\ prevOp' = Summary(lastOp)
  /\ UNCHANGED <<now, faults, dump, logs, store, purges, restore, procs, unit>>

\* an operator scales the workload: spec.replicas, rendered as 1, is changed
Scale(name, desired) ==
  /\ Has(cluster.statefulsets, StatefulSetName(name))
  /\ cluster.statefulsets[StatefulSetName(name)].replicas # desired
  /\ cluster' = [cluster EXCEPT !.statefulsets[StatefulSetName(name)].replicas = desired]
  /\ PlatformEvent(name)

\* the workload controller reports the pods it has created and the ready ones
Observe(name, replicas, readyReplicas) ==
  /\ Has(cluster.statefulsets, StatefulSetName(name))
  /\ Count(readyReplicas) <= Count(replicas)
  /\ Count(replicas) <= MaxReplicas
  /\ cluster.statefulsets[StatefulSetName(name)].status
       # [replicas |-> replicas, readyReplicas |-> readyReplicas]
  /\ cluster' = [cluster EXCEPT !.statefulsets[StatefulSetName(name)].status =
                                  [replicas |-> replicas, readyReplicas |-> readyReplicas]]
  /\ PlatformEvent(name)

StatusNext ==
  \/ \E name \in StreamNames, desired \in 0..MaxReplicas : Scale(name, desired)
  \/ \E name \in StreamNames, replicas \in ReplicaInputs, readyReplicas \in ReplicaInputs :
       Observe(name, replicas, readyReplicas)
  \/ List

StatusSpec == StreamInit /\ [][StatusNext]_vars

\* ---------------------------------------------------------------- name normalization
NameTokens == {"app", "-", "_"}
RECURSIVE NamesUpTo(_)
NamesUpTo(n) ==
  IF n = 0 THEN { << >> }
  ELSE LET shorter == NamesUpTo(n - 1)
       IN  shorter \cup {Append(x, t) : x \in shorter, t \in NameTokens}
NameInputs == (NamesUpTo(MaxNameLen) \ { << >> }) \cup Names

UnitEvent ==
  UNCHANGED <<cluster, now, faults, lastOp, prevOp, dump, logs, store, purges, restore,
              procs>>

\* strategy.getInternalDbName(req.dbName || req.name)
Normalize(type, dbName) ==
  /\ unit.times = 0
  /\ unit.input = dbName /\ unit.type = type
  /\ unit' = [unit EXCEPT !.fn = "getInternalDbName",
                          !.output = getInternalDbName(type, dbName), !.times = 1]
  /\ UnitEvent

\* the result is given to getInternalDbName again
NormalizeAgain ==
  /\ unit.times = 1
  /\ unit' = [unit EXCEPT !.input = unit.output,
                          !.output = getInternalDbName(unit.type, unit.output),
                          !.times = 2]
  /\ UnitEvent

NormalizeInit ==
  /\ cluster = EmptyCluster
  /\ now = 0
  /\ faults = 0
  /\ lastOp = NoOp
  /\ prevOp = Summary(NoOp)
  /\ dump = IdleDump
  /\ logs = IdleLogs
  /\ store = {}
  /\ purges = {}
  /\ restore = IdleRestore
  /\ procs = IdleProcs
  /\ \E type \in Types, dbName \in NameInputs :
       unit = [NoUnit EXCEPT !.type = type, !.input = dbName]

NormalizeNext ==
  \/ \E type \in Types, dbName \in NameInputs : Normalize(type, dbName)
  \/ NormalizeAgain

NormalizeSpec == NormalizeInit /\ [][NormalizeNext]_vars

\* ---------------------------------------------------------------- pruning
\* the buckets a prune or a listing can meet: under the prefix of one instance
\* any of the files 1..MaxObjects, each with any lastModified, and one artifact
\* of another instance
PrunePrefix == <<"shop">>
OtherArtifact == [prefix |-> <<"my", "_", "app">>, file |-> 1, lastModified |-> 1]
StoreInputs ==
  { {[prefix |-> PrunePrefix, file |-> f, lastModified |-> stamp[f]] : f \in files}
      \cup {OtherArtifact} :
    files \in SUBSET (1..MaxObjects), stamp \in [1..MaxObjects -> 1..MaxStamp] }

StorageEvent(op, name, outcome, value, failed) ==
  /\ lastOp' = [NoOp EXCEPT !.op = op, !.name = name, !.outcome = outcome,
                            !.value = value, !.failed = failed]
  /\ prevOp' = Summary(lastOp)
  /\ UNCHANGED <<cluster, now, faults, dump, logs, purges, restore, procs, unit>>

StorageFaults(listFails, deleteFails) ==
  (IF listFails THEN { <<"listObjects">> } ELSE {})
    \cup (IF deleteFails THEN { <<"deleteObjects">> } ELSE {})

PruneBackups(dbName, keep) ==
  \E listFails \in BOOLEAN, deleteFails \in BOOLEAN :
    LET o == pruneBackups(store, dbName, keep, listFails, deleteFails)
    IN  /\ deleteFails => o.deleteSent
        /\ store' = o.store
        /\ StorageEvent("prune", dbName, o.outcome,
                        [deleted |-> o.value, keep |-> keep, deleteSent |-> o.deleteSent],
                        StorageFaults(listFails, deleteFails))

\* GET /databases/{name}/backups lists under the instance name of the URL
ListingPrefix(name) == name
ListBackups(name) ==
  \E listFails \in BOOLEAN :
    /\ store' = store
    /\ StorageEvent("backups", name, "ok",
                    listBackups(store, ListingPrefix(name), listFails),
                    StorageFaults(listFails, FALSE))

PruneInit ==
  /\ cluster = EmptyCluster
  /\ now = 0
  /\ faults = 0
  /\ lastOp = NoOp
  /\ prevOp = Summary(NoOp)
  /\ dump = IdleDump
  /\ logs = IdleLogs
  /\ store \in StoreInputs
  /\ purges = {}
  /\ restore = IdleRestore
  /\ procs = IdleProcs
  /\ unit = NoUnit

PruneNext ==
  \/ \E keep \in 0..MaxKeep : PruneBackups(PrunePrefix, keep)
  \/ ListBackups(PrunePrefix)

PruneSpec == PruneInit /\ [][PruneNext]_vars

\* ---------------------------------------------------------------- restore endpoint
\* PUT /databases/{name}/backups/{backupfile}: the handler passes the two URL
\* segments to restoreDatabase, the second one as the object key
PUT_backupKey(name, backupfile) == backupfile

\* the segment is the file name of a listed artifact (what the page sends), or
\* any other text a client puts there, such as a full key
PUT(name, backupfile) == RestoreStart(name, PUT_backupKey(name, backupfile))

RouteNext ==
  \/ \E name \in Names : ScheduledBackup(name)
  \/ Tick
  \/ \E name \in Names : ListBackups(name)
  \/ \E name \in Names, backupfile \in RestoreKeys : PUT(name, backupfile)
  \/ RestorePre
  \/ RestoreExec
  \/ \E status \in {"Success", "Failure"} : RestoreStatus(status)

RouteSpec == RestoreInit /\ [][RouteNext]_vars

\* ---------------------------------------------------------------- claims
CoreKinds == {"secret", "service", "statefulset", "cronjob"}
EntriesNamed(listing, name) == {i \in 1..Len(listing) : listing[i].name = name}

\* C1: a create that fails with a non-conflict error and whose compensating
\* deletes all succeed leaves none of the secret, service, statefulset and
\* backup resources of the name, and a list that follows shows no such instance
C1_RollbackLeavesNothing ==
  /\ (lastOp.op = "create" /\ lastOp.outcome = "raised"
        /\ (\A at \in lastOp.failed : ~IsDeleteCall(at)))
       => Present(cluster, lastOp.name) \cap CoreKinds = {}
  /\ (lastOp.op = "list" /\ lastOp.outcome = "ok"
        /\ prevOp.op = "create" /\ prevOp.outcome = "raised" /\ prevOp.clean)
       => EntriesNamed(lastOp.value, prevOp.name) = {}

C1_Witness ==
  /\ lastOp.op = "create" /\ lastOp.outcome = "raised" /\ lastOp.rollback
  /\ (<<"createStatefulSet">> \o StatefulSetName(lastOp.name)) \in lastOp.failed
  /\ Present(cluster, lastOp.name) = {}

\* C2: a list that immediately follows a successful create returns exactly one
\* instance of the created name, and its status is Pending
C2_CreateThenListPending ==
  (lastOp.op = "list" /\ lastOp.outcome = "ok"
     /\ prevOp.op = "create" /\ prevOp.outcome = "ok")
    => /\ Cardinality(EntriesNamed(lastOp.value, prevOp.name)) = 1
       /\ \A i \in EntriesNamed(lastOp.value, prevOp.name) :
            lastOp.value[i].status = "Pending"

C2_Witness ==
  /\ lastOp.op = "list" /\ lastOp.outcome = "ok"
  /\ prevOp.op = "create" /\ prevOp.outcome = "ok"
  /\ Len(lastOp.value) = 2
  /\ \E i \in 1..Len(lastOp.value) :
       lastOp.value[i].name = prevOp.name /\ lastOp.value[i].status = "Pending"

\* C3: a create for a name whose secret exists, answered by the API server
\* with the conflict, fails with 'Database already exists', runs no rollback
\* and leaves the secret, service, statefulset and backup resources as they were
C3_ConflictLeavesAll ==
  [][ (/\ lastOp'.op = "create"
       /\ Has(cluster.secrets, SecretName(lastOp'.name))
       /\ (<<"createSecret">> \o SecretName(lastOp'.name)) \notin lastOp'.failed)
      => (/\ lastOp'.outcome = "Database already exists"
          /\ ~lastOp'.rollback
          /\ Has(cluster'.secrets, SecretName(lastOp'.name))
          /\ cluster'.secrets[SecretName(lastOp'.name)]
               = cluster.secrets[SecretName(lastOp'.name)]
          /\ cluster'.services = cluster.services
          /\ cluster'.statefulsets = cluster.statefulsets
          /\ cluster'.cronjobs = cluster.cronjobs) ]_vars

C3_Witness ==
  /\ lastOp.op = "create" /\ lastOp.outcome = "Database already exists"
  /\ lastOp.full /\ Provisioned(cluster, lastOp.name)

\* C4: delete on a provisioned instance succeeds, and a second delete of the
\* same name right after it fails with 'Database not found' and raises
\* nothing else
C4_DeleteTwice ==
  /\ (lastOp.op = "delete" /\ lastOp.full
        /\ (<<"getStatefulSet">> \o StatefulSetName(lastOp.name)) \notin lastOp.failed)
       => lastOp.outcome = "ok"
  /\ (lastOp.op = "delete" /\ prevOp.op = "delete" /\ prevOp.name = lastOp.name
        /\ prevOp.outcome = "ok" /\ prevOp.full /\ prevOp.clean
        /\ (<<"getStatefulSet">> \o StatefulSetName(lastOp.name)) \notin lastOp.failed)
       => (lastOp.outcome = "Database not found" /\ lastOp.err = NoErr)

C4_Witness ==
  /\ lastOp.op = "delete" /\ lastOp.outcome = "Database not found"
  /\ prevOp.op = "delete" /\ prevOp.name = lastOp.name
  /\ prevOp.outcome = "ok" /\ prevOp.full /\ prevOp.clean

\* C5: a create for redis succeeds on a free name and creates no backup cronjob;
\* a manual backup for a redis instance without a backup cronjob fails with
\* 'Backup configuration not found' and creates no job
C5_RedisNoBackup ==
  [][ /\ (lastOp'.op = "create" /\ lastOp'.type = "redis" /\ now' = now)
        => /\ DOMAIN cluster'.cronjobs \subseteq DOMAIN cluster.cronjobs
           /\ (Present(cluster, lastOp'.name) = {} /\ lastOp'.failed = {})
                => lastOp'.outcome = "ok"
      /\ (/\ lastOp'.op = "trigger" /\ now' = now
          /\ Has(cluster.statefulsets, StatefulSetName(lastOp'.name))
          /\ cluster.statefulsets[StatefulSetName(lastOp'.name)].labels.dbType = "redis"
          /\ ~Has(cluster.cronjobs, CronJobName(lastOp'.name))
          /\ (<<"getCronJob">> \o CronJobName(lastOp'.name)) \notin lastOp'.failed)
        => (/\ lastOp'.outcome = "Backup configuration not found"
            /\ cluster'.jobs = cluster.jobs) ]_vars

C5_Witness ==
  /\ lastOp.op = "trigger" /\ lastOp.outcome = "Backup configuration not found"
  /\ prevOp.op = "create" /\ prevOp.outcome = "ok" /\ prevOp.name = lastOp.name
  /\ Has(cluster.statefulsets, StatefulSetName(lastOp.name))
  /\ cluster.statefulsets[StatefulSetName(lastOp.name)].labels.dbType = "redis"
  /\ cluster.cronjobs = EmptyMap /\ cluster.jobs = {}

\* C6: whenever delete returns successfully, no resource of the name is left:
\* secret, service, statefulset, backup cronjob and volume claim are absent
C6_DeleteRemovesAll ==
  (lastOp.op = "delete" /\ lastOp.outcome = "ok")
    => Present(cluster, lastOp.name) = {}

\* C7 as stated: every workload yields one entry; an instance whose secret or
\* service fetch failed has empty credentials and no endpoint; every other
\* entry is what a list without failures returns
FetchFailed(call, resource) == (<<call>> \o resource) \in lastOp.failed
NominalEntry(name) ==
  listEntry(Start(cluster), cluster.statefulsets[StatefulSetName(name)], {}, "http500").entry
ListedOnce ==
  /\ lastOp.outcome = "ok"
  /\ Len(lastOp.value) = Cardinality(DOMAIN cluster.statefulsets)
  /\ \A sn \in DOMAIN cluster.statefulsets :
       Cardinality(EntriesNamed(lastOp.value, cluster.statefulsets[sn].labels.app)) = 1

C7_FetchFailureEmptiesEntry ==
  (lastOp.op = "list" /\ <<"listStatefulSets">> \notin lastOp.failed)
    => /\ ListedOnce
       /\ \A i \in 1..Len(lastOp.value) :
            LET e == lastOp.value[i]
            IN  IF FetchFailed("getSecret", SecretName(e.name))
                   \/ FetchFailed("getService", ServiceName(e.name))
                THEN /\ e.username = Unset /\ e.password = Unset
                     /\ e.internalDbName = Unset /\ e.ip = Unset /\ e.port = 0
                ELSE e = NominalEntry(e.name)

\* C7 amended: a failed secret fetch empties credentials and endpoint; a failed
\* service fetch alone removes the endpoint and keeps the decoded credentials
C7_FetchFailureDegradesEntry ==
  (lastOp.op = "list" /\ <<"listStatefulSets">> \notin lastOp.failed)
    => /\ ListedOnce
       /\ \A i \in 1..Len(lastOp.value) :
            LET e == lastOp.value[i]
            IN  IF FetchFailed("getSecret", SecretName(e.name))
                THEN /\ e.username = Unset /\ e.password = Unset
                     /\ e.internalDbName = Unset /\ e.ip = Unset /\ e.port = 0
                ELSE IF FetchFailed("getService", ServiceName(e.name))
                THEN e = [NominalEntry(e.name) EXCEPT !.ip = Unset, !.port = 0]
                ELSE e = NominalEntry(e.name)

C7_Witness ==
  /\ lastOp.op = "list" /\ lastOp.outcome = "ok" /\ Len(lastOp.value) = 2
  /\ \E i \in 1..2 :
       /\ FetchFailed("getService", ServiceName(lastOp.value[i].name))
       /\ lastOp.value[i].username # Unset /\ lastOp.value[i].ip = Unset
       /\ NominalEntry(lastOp.value[i].name).ip # Unset
       /\ lastOp.value[3 - i] = NominalEntry(lastOp.value[3 - i].name)

\* C8: a dump whose exec status is 'Failure' never ends for the caller as a
\* clean end-of-stream
C8_FailureNeverCleanEnd ==
  dump.status = "Failure" => dump.web \notin {"closing", "closed"}

\* C9: once the caller has cancelled the dump stream, the exec channel is
\* eventually closed
C9_CancelClosesExec ==
  (dump.web = "cancelled") ~> (dump.exec # "open")

\* C10: a cancelled log stream has its log request aborted; a log channel
\* error leaves the caller's stream errored and the request aborted; no
\* request stays open behind a stream the caller can no longer read
C10_LogCancellationBothWays ==
  /\ logs.web = "cancelled" => logs.req = "aborted"
  /\ logs.chanErrored => (logs.web = "errored" /\ logs.req = "aborted")
  /\ logs.web \in {"cancelled", "errored", "closed"} => logs.req # "open"

C10_Witness ==
  /\ logs.web = "cancelled" /\ logs.req = "aborted" /\ logs.sent > 0

\* C11: a failed pre-restore command does not end the restore, whose restore
\* command is still started; once the artifact is open the call rejects only
\* when the restore exec cannot be opened or reports 'Failure', and resolves
\* only when it reports another status
C11_RestoreSettlesByExec ==
  /\ restore.pre = "failed"
       => /\ restore.pc \in {"exec", "running", "done"}
          /\ restore.pc = "done" => restore.exec # "none"
  /\ (restore.settled = "rejected" /\ restore.stream = "open")
       => (restore.exec = "failed" \/ restore.status = "Failure")
  /\ restore.settled = "resolved"
       => (restore.exec = "closed" /\ restore.status = "Success")
  /\ restore.exec = "failed" => restore.settled = "rejected"
  /\ restore.status = "Failure" => restore.settled = "rejected"
  /\ restore.status = "Success" => restore.settled = "resolved"

C11_Witness ==
  /\ restore.pre = "failed" /\ restore.settled = "resolved"
  /\ "restore" \in restore.ran

\* C12: a prune of a prefix holding n artifacts, without a storage failure,
\* deletes exactly max(0, n - keep) artifacts of that prefix, none of them
\* newer than an artifact it keeps, returns their number, and sends no delete
\* when n <= keep
Under(st, prefix) == {o \in st : o.prefix = prefix}
C12_PruneDeletesOldest ==
  [][ (lastOp'.op = "prune" /\ lastOp'.failed = {})
      => LET before == Under(store, lastOp'.name)
             n == Cardinality(before)
             keep == lastOp'.value.keep
             deleted == store \ store'
         IN  /\ store' \subseteq store
             /\ deleted \subseteq before
             /\ Cardinality(deleted) = (IF n > keep THEN n - keep ELSE 0)
             /\ \A d \in deleted, k \in before \ deleted :
                  d.lastModified <= k.lastModified
             /\ lastOp'.outcome = "ok"
             /\ lastOp'.value.deleted = Cardinality(deleted)
             /\ n <= keep => ~lastOp'.value.deleteSent ]_vars

C12_Witness ==
  /\ lastOp.op = "prune" /\ lastOp.failed = {} /\ prevOp.op = "init"
  /\ lastOp.value.keep = 3 /\ lastOp.value.deleted = 2
  /\ Cardinality(Under(store, lastOp.name)) = 3
  /\ \E o \in Under(store, lastOp.name) : o.lastModified = 1

\* C13: the prefix the scheduled backup job of an instance uploads to is the
\* internal database name stored with the instance; it is the prefix backup
\* listing reads for the instance and the prefix a successful delete purges
C13_OneBackupPrefix ==
  [][ /\ \A name \in Names :
           (Has(cluster'.cronjobs, CronJobName(name))
              /\ Has(cluster'.secrets, SecretName(name)))
             => LET internal == DecodeKey(cluster'.secrets[SecretName(name)], "db_name")
                IN  /\ cluster'.cronjobs[CronJobName(name)].prefix = internal
                    /\ ListingPrefix(name) = internal
      /\ (/\ lastOp'.op = "delete" /\ lastOp'.outcome = "ok"
          /\ Has(cluster.cronjobs, CronJobName(lastOp'.name))
          /\ Has(cluster.secrets, SecretName(lastOp'.name))
          /\ (<<"getSecret">> \o SecretName(lastOp'.name)) \notin lastOp'.failed)
         => lastOp'.value = cluster.cronjobs[CronJobName(lastOp'.name)].prefix ]_vars

\* C14: when no create or delete of a name is in flight and no call has
\* failed, the secret, service, statefulset and (for an engine with backups)
\* backup cronjob of the name all exist or are all absent
Quiescent == \A s \in Slots : procs[s].pc \in {"idle", "done"}
FullSet(c, name) ==
  /\ Has(c.statefulsets, StatefulSetName(name))
  /\ LET type == c.statefulsets[StatefulSetName(name)].labels.dbType
     IN  Present(c, name) \cap CoreKinds =
           IF getBackupConfig(type, name, name).supported THEN CoreKinds
           ELSE CoreKinds \ {"cronjob"}
C14_QuiescentAllOrNone ==
  (Quiescent /\ faults = 0)
    => \A name \in ConcNames :
         Present(cluster, name) \cap CoreKinds = {} \/ FullSet(cluster, name)

\* C15: of two creates of one name on a free name, without another failure,
\* exactly one succeeds and the other fails with 'Database already exists';
\* the full resource set then exists and the secret holds the credentials
\* returned to the successful caller
TwoCreatesDone ==
  /\ \A s \in Slots : procs[s].op = "create" /\ procs[s].pc = "done"
  /\ faults = 0
C15_OneCreateWins ==
  TwoCreatesDone
    => \E w \in Slots :
         LET won == procs[w]
             name == won.req.name
         IN  /\ won.outcome = "ok"
             /\ \A l \in Slots \ {w} : procs[l].outcome = "Database already exists"
             /\ FullSet(cluster, name)
             /\ cluster.statefulsets[StatefulSetName(name)].labels.dbType = won.req.type
             /\ DecodeKey(cluster.secrets[SecretName(name)], "username") = won.value.username
             /\ DecodeKey(cluster.secrets[SecretName(name)], "password") = won.value.password
             /\ DecodeKey(cluster.secrets[SecretName(name)], "db_name")
                  = won.value.internalDbName

C15_Witness ==
  /\ TwoCreatesDone
  /\ procs[2].outcome = "ok" /\ procs[1].outcome = "Database already exists"
  /\ procs[1].calls # << >> /\ Len(procs[2].calls) > Len(procs[1].calls)
  /\ DecodeKey(cluster.secrets[SecretName(procs[2].req.name)], "password")
       = generatePassword(SlotToken(2))

\* C16: every status a list reports is Running or Pending, and it is Running
\* exactly when the ready replica count of the workload equals its desired
\* replica count. Stated for workloads whose controller has caught up, where
\* the pod count of the status, which listDatabases reads, is the desired
\* count of the workload.
C16_RunningIffReadyIsDesired ==
  (lastOp.op = "list" /\ lastOp.outcome = "ok")
    => \A i \in 1..Len(lastOp.value) :
         LET e == lastOp.value[i]
             sts == cluster.statefulsets[StatefulSetName(e.name)]
         IN  /\ e.status \in {"Running", "Pending"}
             /\ Count(sts.status.replicas) = sts.replicas
                  => (e.status = "Running"
                        <=> Count(sts.status.readyReplicas) = sts.replicas)

\* C17: for both engines the normalization of a name that is already the
\* result of the normalization returns it unchanged, and for postgres my-app
\* is normalized to my_app
C17_NormalizeIdempotent ==
  /\ unit.times = 2 => unit.output = unit.input
  /\ (unit.times = 1 /\ unit.type = "postgres" /\ unit.input = <<"my", "-", "app">>)
       => unit.output = <<"my", "_", "app">>
  /\ (unit.times >= 1 /\ unit.type = "postgres") => \A i \in 1..Len(unit.output) :
                                                      unit.output[i] # "-"

C17_Witness ==
  /\ unit.times = 2 /\ unit.type = "postgres"
  /\ unit.output = <<"my", "_", "app">>

\* C18: a create that created the secret of the name and then failed at a
\* later step, an identity conflict at that step included, does not leave the
\* secret behind when its compensating deletes go through
C18_LateFailureCompensates ==
  [][ (/\ lastOp'.op = "create" /\ lastOp'.outcome # "ok"
       /\ ~Has(cluster.secrets, SecretName(lastOp'.name))
       /\ (<<"createSecret">> \o SecretName(lastOp'.name)) \notin lastOp'.failed
       /\ \A at \in lastOp'.failed : ~IsDeleteCall(at))
      => ~Has(cluster'.secrets, SecretName(lastOp'.name)) ]_vars

\* C19: the calls of a delete are issued in the order workload read, secret
\* read, workload delete, service delete, secret delete, cronjob delete,
\* volume claim delete, object-store cleanup; the cleanup is started in the
\* step in which delete returns successfully, and a returned delete is not
\* changed by what the cleanup does later
DeleteOrder ==
  <<"getStatefulSet", "getSecret", "deleteStatefulSet", "deleteService", "deleteSecret",
    "deleteCronJob", "deletePVC", "deleteBackupsFolder">>
InDeleteOrder(calls) ==
  /\ Len(calls) <= Len(DeleteOrder)
  /\ \A i \in 1..Len(calls) : calls[i] = DeleteOrder[i]
C19_DeleteOrder ==
  [][ \A s \in Slots :
        /\ procs'[s].op = "delete" => InDeleteOrder(procs'[s].calls)
        /\ (procs'[s].op = "delete" /\ procs'[s].calls # procs[s].calls
              /\ procs'[s].calls[Len(procs'[s].calls)] = "deleteBackupsFolder")
             => (procs'[s].pc = "done" /\ procs'[s].outcome = "ok")
        /\ (procs[s].op = "delete" /\ procs[s].pc = "done") => procs'[s] = procs[s] ]_vars

C19_Witness ==
  \E s \in Slots :
    /\ procs[s].op = "delete" /\ procs[s].pc = "done" /\ procs[s].outcome = "ok"
    /\ procs[s].calls = DeleteOrder
    /\ procs[s].faulted = {}
    /\ purges # {}
    /\ Present(cluster, procs[s].req.name) = {}

\* C20: a create that raises a non-conflict error raises the error of the
\* create call that failed, also when compensating deletes fail, and has
\* issued all four compensating deletes
CreateCalls == {"createSecret", "createService", "createStatefulSet", "createCronJob"}
LastCalls(calls, n) == SubSeq(calls, Len(calls) - n + 1, Len(calls))
C20_OriginalCauseRaised ==
  \A s \in Slots :
    (procs[s].op = "create" /\ procs[s].pc = "done" /\ procs[s].outcome # "ok")
      => \/ procs[s].outcome = "Database already exists"
         \/ /\ procs[s].outcome = "raised"
            /\ Head(procs[s].err.at) \in CreateCalls
            /\ procs[s].err.at \in procs[s].faulted
            /\ Len(procs[s].calls) >= 4
            /\ LastCalls(procs[s].calls, 4)
                 = <<"deleteSecret", "deleteService", "deleteStatefulSet", "deleteCronJob">>

C20_Witness ==
  \E s \in Slots :
    /\ procs[s].op = "create" /\ procs[s].pc = "done" /\ procs[s].outcome = "raised"
    /\ Head(procs[s].err.at) = "createStatefulSet"
    /\ (<<"deleteService">> \o ServiceName(procs[s].req.name)) \in procs[s].faulted
    /\ Has(cluster.services, ServiceName(procs[s].req.name))
    /\ ~Has(cluster.secrets, SecretName(procs[s].req.name))

\* C21: createDatabase makes the calls of ensureGlobalS3Secret before any call
\* for the instance: createSecret on dataforge-s3-credentials first, then
\* patchSecret only after that create answered with a conflict. Once a request
\* is past these calls and none of them failed in transport, the secret exists
\* and holds the configured access key, secret key, endpoint, bucket and
\* region, whether it was absent, current or written under an earlier
\* configuration before, and whatever another request does at the same time.
PastEnsure(p) == p.op = "create" /\ p.pc \notin {"idle", "s3", "s3patch"}
C21_EnsureYieldsConfigured ==
  \A s \in Slots :
    LET p == procs[s]
    IN  /\ (p.op = "create" /\ p.pc = "s3") => p.calls = << >>
        /\ (p.op = "create" /\ p.pc = "s3patch") => p.calls = <<"createSecret">>
        /\ PastEnsure(p) =>
              /\ Len(p.calls) >= 1 /\ p.calls[1] = "createSecret"
              /\ (Len(p.calls) >= 2 /\ p.calls[2] = "patchSecret") =>
                    lastOp.outcome # "absent" \/ \E t \in Slots \ {s} : PastEnsure(procs[t])
              /\ (p.faulted \cap S3Labels = {}) =>
                    /\ Has(cluster.secrets, S3SecretName)
                    /\ cluster.secrets[S3SecretName] = EncodeAll(S3Config)

\* both requests are past their ensure, each patched a secret that was written
\* under an earlier configuration, and none of the four calls failed
C21_Witness ==
  /\ lastOp.outcome = "earlier"
  /\ \A s \in Slots :
       /\ PastEnsure(procs[s])
       /\ procs[s].faulted = {}
       /\ Len(procs[s].calls) >= 2 /\ procs[s].calls[2] = "patchSecret"
  /\ cluster.secrets[S3SecretName] = EncodeAll(S3Config)

\* C22: two triggerBackup calls for one instance submit jobs of distinct names,
\* so a call that finds the backup cron job and has no call failing in
\* transport is not refused for a job-name conflict: it returns its job name.
C22_DistinctJobNames ==
  [][(/\ lastOp'.op = "trigger"
      /\ lastOp'.failed = {}
      /\ Has(cluster.cronjobs, CronJobName(lastOp'.name)))
     => (/\ lastOp'.outcome = "ok"
         /\ lastOp'.value \notin cluster.jobs)]_vars

\* C23: a delete operation of the gateway (deleteSecret, deleteService,
\* deleteStatefulSet, deleteCronJob, deletePVC) whose target does not exist and
\* whose request reaches the API server completes without raising.
C23_DeleteOfAbsentCompletes ==
  [][(/\ lastOp'.op = "gatewayDelete"
      /\ lastOp'.failed = {}
      /\ ~TargetExists(cluster, lastOp'.type, lastOp'.name))
     => lastOp'.outcome = "ok"]_vars

\* C24: the dump relay takes a chunk from the exec channel only while the web
\* stream wants data, that is while fewer chunks wait unread in its queue than
\* its high-water mark (1 chunk, the default of a ReadableStream built without
\* a queuing strategy); a caller that stops reading stops the relay.
HighWaterMark == 1
C24_DumpBackpressure ==
  [][(dump'.sent > dump.sent) => (dump.queue < HighWaterMark)]_vars

\* C25: a createDatabase call that does not succeed deletes nothing it did not
\* create: every resource of its name that existed when the call began (no
\* such resource can have been created by the call) exists when it returns.
C25_FailedCreateKeepsForeign ==
  [][(lastOp'.op = "create" /\ lastOp'.outcome # "ok")
     => Present(cluster, lastOp'.name) \subseteq Present(cluster', lastOp'.name)]_vars

\* C26: in no state between calls is a name stuck: it is never the case that
\* every createDatabase for the name would be answered 'Database already
\* exists' while deleteDatabase for it would be answered 'Database not found'
\* (both taken with no call failing).
CreateRefused(c, name) ==
  \A req \in Requests, tok \in RandomTokens :
    req.name = name =>
      createDatabase(c, req, tok, {}, "http500").outcome = "Database already exists"
DeleteRefused(c, name) ==
  deleteDatabase(c, name, {}, "http500").outcome = "Database not found"
C26_NameNeverStuck ==
  \A name \in Names : ~(CreateRefused(cluster, name) /\ DeleteRefused(cluster, name))

\* C27: when createDatabase has created the backup cron job of its name, the
\* secret dataforge-s3-credentials the job reads exists; a createDatabase whose
\* ensureGlobalS3Secret had a call fail creates no resource of the instance.
C27_CronJobHasS3Secret ==
  [][(lastOp'.op = "create")
     => LET name == lastOp'.name
        IN  /\ ("cronjob" \in Present(cluster', name) \ Present(cluster, name))
                  => Has(cluster'.secrets, S3SecretName)
            /\ (lastOp'.failed \cap S3Labels # {})
                  => Present(cluster', name) \subseteq Present(cluster, name)]_vars

\* C28: restoreDatabase runs a command in the workload (the pre-restore command
\* or the restore command) only after the workload was read, its strategy
\* resolved and the artifact of backupKey opened for reading; a call that could
\* not open the artifact has run no command and is rejected.
C28_NoCommandBeforeArtifact ==
  /\ restore.ran # {} =>
        /\ restore.stream = "open"
        /\ \E o \in store : Key(o) = restore.key
        /\ Has(cluster.statefulsets, StatefulSetName(restore.name))
        /\ getStrategy(cluster.statefulsets[StatefulSetName(restore.name)].labels.dbType).known
  /\ (restore.pc # "idle" /\ restore.stream # "open") =>
        /\ restore.ran = {}
        /\ restore.pc = "done"
        /\ restore.settled = "rejected"

\* a restore asked for a key under which the bucket, which holds artifacts,
\* has no object: it is rejected with no command run
C28_Witness ==
  /\ restore.pc = "done"
  /\ restore.settled = "rejected"
  /\ restore.stream = "none"
  /\ restore.ran = {}
  /\ store # {}
  /\ ~\E o \in store : Key(o) = restore.key
  /\ Has(cluster.statefulsets, StatefulSetName(restore.name))

\* C29: for every artifact that listBackups reports for an instance name, the
\* key PUT passes to restoreDatabase for the artifact's file name is the
\* artifact's key (prefix included), and getBackupStream opens it.
C29_RestoreKeyIsListedKey ==
  \A name \in Names :
    LET listing == listBackups(store, ListingPrefix(name), FALSE)
    IN  \A i \in 1..Len(listing) :
          /\ PUT_backupKey(name, listing[i].filename) = listing[i].key
          /\ getBackupStream(store, PUT_backupKey(name, listing[i].filename), FALSE).ok

\* C30: the engine deleteDatabase resolves from the dataforge.db/type label of
\* the workload a successful createDatabase rendered is the engine of that
\* request, and the volume claim name deleteDatabase computes from it is the
\* name the platform derives from the workload (volume-claim-template name,
\* '-', workload name, '-0'); a deleteDatabase with no failing call removes
\* that volume claim and no other.
ResolvedType(sts) == IF sts.labels.dbType = "" THEN "postgres" ELSE sts.labels.dbType
PlatformClaim(sts) == sts.volumeClaimTemplate \o <<"-">> \o sts.name \o <<"-", "0">>
C30_DeleteFindsCreatedVolume ==
  [][/\ (lastOp'.op = "create" /\ lastOp'.outcome = "ok") =>
          LET sts == cluster'.statefulsets[StatefulSetName(lastOp'.name)]
          IN  /\ ResolvedType(sts) = lastOp'.type
              /\ getStrategy(ResolvedType(sts)).known
              /\ PVCName(getVolumeName(ResolvedType(sts)), lastOp'.name) = PlatformClaim(sts)
     /\ (lastOp'.op = "delete" /\ lastOp'.outcome = "ok" /\ lastOp'.failed = {}) =>
          cluster'.pvcs =
            cluster.pvcs \ {PlatformClaim(cluster.statefulsets[StatefulSetName(lastOp'.name)])}
    ]_vars

\* a redis instance that was created and had started (its volume claim
\* existed) was deleted with no failing call, and nothing of it is left
C30_Witness ==
  /\ lastOp.op = "delete" /\ lastOp.outcome = "ok" /\ lastOp.failed = {}
  /\ lastOp.full
  /\ lastOp.value = <<"0">>
  /\ Present(cluster, lastOp.name) = {}

====
